---- MODULE Spec2Model ----
(***************************************************************************)
(* Kernel Studio backend: hybrid retrieval (retrieval.py), the CLEAR       *)
(* refusal gate (clear_gate.py), the graph builder (graph.py), the         *)
(* Postgres store (store.py) and the build pipeline (modules/app.py).      *)
(*                                                                         *)
(* Conventions of the model                                                *)
(*   - a Python str is a sequence of character codes (ASCII), so that      *)
(*     lower(), strip(), sorted() and the substring test `in` are          *)
(*     computed, not assumed;                                              *)
(*   - a Python dict is a TLA+ function whose DOMAIN is its key set, so    *)
(*     dict.get(key, default) can tell a missing key from a present one;   *)
(*   - scar_valence, life_phase_weight, strictness and the weights are     *)
(*     decimals held in hundredths (0.85 is 85); a hybrid score is an      *)
(*     exact fraction <<numerator, denominator>> in lowest terms, because  *)
(*     1 / (1 + distance) leaves the decimals.  Floating-point rounding is *)
(*     not modelled;                                                        *)
(*   - SQL NULL / Python None of a text column is the string "None".       *)
(***************************************************************************)
EXTENDS Integers, Sequences, FiniteSets, TLC

VARIABLES
    contradictions,     \* table contradictions of the one kernel: rows in insertion order
    graph_edges,        \* table graph_edges of the kernel: rows in insertion order
    weights,            \* HybridRetriever.weights
    score_args,         \* argument list of the last direct _score_contradictions call
    score_result,       \* its return value
    retrieved,          \* the response of HybridRetriever.retrieve, while it is the last
                        \* operation: the rows searched, their scores and the result
    strictness,         \* CLEARGate.strictness, in hundredths
    gate_query,         \* the caller's query string handed to CLEARGate.evaluate
    gate_contradictions,\* the caller's tension list handed to CLEARGate.evaluate
    gate_result,        \* what the last CLEARGate.evaluate call returned
    agg_args,           \* tension list of the last direct _aggregate_contradictions call
    agg_result,         \* its pole pairs, and the nodes and edges built from them
    kernel_status,      \* kernels.status of the one kernel
    batches,            \* table ingest_batches: rows in insertion order, id = position
    tasks,              \* the run_build_pipeline background tasks: batch and position
    build_response,     \* the response of POST /build, while it is the last operation
    last_build,         \* a graph build, while it is the last operation: its path, the
                        \* tensions it read, the edge rows it stored, what it returned
    chunk_size,         \* Chunker.chunk_size
    overlap,            \* Chunker.overlap
    text,               \* the argument of the Chunker.chunk_text call
    words,              \* chunk_text's local list words
    chunks,             \* chunk_text's local list chunks, and what it returns
    chunk_i,            \* chunk_text's local index i
    chunk_pc,           \* where the chunk_text call stands: "idle" before the call,
                        \* "while" at the loop test, "returned" after the return
    llm_outcomes,       \* what the OpenAI client does on the successive create calls
    compose_args,       \* voice_priority and contradictions handed to
                        \* compose_with_voice_fallback
    voices,             \* compose_with_voice_fallback's local voice_priority
    voice_at,           \* position of the for loop in it
    llm_calls,          \* create calls made so far
    compose_result,     \* what compose_with_voice_fallback returned
    compose_pc,         \* where the call stands: "idle", "for", "returned"
    sources,            \* table sources: parse_status, and what parsing and chunking
                        \* the file at storage_path gives
    deep_memories,      \* table deep_memories, in insertion order
    ingest,             \* the IngestPipeline.run call: its position, locals and outcome
    chat_response,      \* the response of the last POST /chat
    query_result,       \* what the last retrieve_by_poles or get_mask_context returned
    subgraph            \* what the last get_subgraph returned

retriever_vars == <<weights, score_args, score_result, retrieved>>

gate_vars == <<strictness, gate_query, gate_contradictions, gate_result>>

store_vars == <<contradictions, graph_edges>>

graph_vars == <<agg_args, agg_result>>

build_vars == <<kernel_status, batches, tasks, build_response, last_build>>

chunker_vars == <<chunk_size, overlap, text, words, chunks, chunk_i, chunk_pc>>

composer_vars ==
    <<llm_outcomes, compose_args, voices, voice_at, llm_calls, compose_result, compose_pc>>

ingest_vars == <<sources, deep_memories, ingest>>

query_vars == <<chat_response, query_result, subgraph>>

vars ==
    <<store_vars, retriever_vars, gate_vars, graph_vars, build_vars, chunker_vars,
      composer_vars, ingest_vars, query_vars>>

None == "None"

(***************************************************************************)
(* Bounds of the model                                                     *)
(***************************************************************************)
MaxStored == 3          \* rows the contradictions table holds at most
MaxScoreArgs == 2       \* length of a directly supplied tension list
MaxGateList == 4        \* length of the tension list handed to the gate
MaxAggArgs == 3         \* length of the tension list handed to the aggregation
MaxBuilds == 1          \* POST /build requests that start a pipeline
MaxConcurrent == 2       \* POST /build requests whose pipelines run side by side
MaxSaved == 2           \* tensions saved beside the pipeline's samples
MaxEdgeRows == 2        \* rows in graph_edges beyond which build_graph is not called
MaxTextLen == 5         \* characters of a text handed to Chunker.chunk_text
MaxChunks == 6          \* chunks beyond which a chunk_text loop is not followed
MaxErrorLen == 60       \* characters of the message of an exception of the LLM client
MaxDepth == 2           \* depth asked of get_subgraph
MaxSubgraphEdges == 3   \* rows of graph_edges a subgraph is taken from
MaxQuerySaved == 1      \* tensions saved before the build beside the query operations
MaxSources == 2         \* rows of table sources
MaxSourceChunks == 2    \* chunks the text of one source is cut into

(***************************************************************************)
(* Python str and list helpers                                             *)
(***************************************************************************)
Range(s) == {s[i] : i \in DOMAIN s}

Min(a, b) == IF a <= b THEN a ELSE b

Max(a, b) == IF a >= b THEN a ELSE b

Abs(x) == IF x < 0 THEN -x ELSE x

Prefix(s, n) == SubSeq(s, 1, Min(n, Len(s)))

\* dict.get(key, default)
Get(c, key, default) == IF key \in DOMAIN c THEN c[key] ELSE default

\* dict[key] = value on an existing or a new key
Put(c, key, value) == [k \in DOMAIN c \cup {key} |-> IF k = key THEN value ELSE c[k]]

\* str.lower() on ASCII
Lower(s) == [i \in DOMAIN s |-> IF s[i] >= 65 /\ s[i] <= 90 THEN s[i] + 32 ELSE s[i]]

\* sub in s: s has sub as a contiguous run (the empty string is in every string)
Contains(sub, s) ==
    \E i \in 0..(Len(s) - Len(sub)) : SubSeq(s, i + 1, i + Len(sub)) = sub

\* str.strip(): leading and trailing whitespace removed
IsSpace(ch) == ch \in {9, 10, 11, 12, 13, 32}

RECURSIVE LStrip(_)
LStrip(s) == IF s # <<>> /\ IsSpace(Head(s)) THEN LStrip(Tail(s)) ELSE s

RECURSIVE RStrip(_)
RStrip(s) ==
    IF s # <<>> /\ IsSpace(s[Len(s)]) THEN RStrip(SubSeq(s, 1, Len(s) - 1)) ELSE s

Strip(s) == RStrip(LStrip(s))

\* a < b on Python str: by code point, a proper prefix first
RECURSIVE StrLess(_, _)
StrLess(a, b) ==
    IF b = <<>> THEN FALSE
    ELSE IF a = <<>> THEN TRUE
    ELSE IF Head(a) # Head(b) THEN Head(a) < Head(b)
    ELSE StrLess(Tail(a), Tail(b))

\* tuple([a, b]): the pair as written, not sorted
UnsortedPair(a, b) == <<a, b>>

\* tuple(sorted([a, b]))
SortedPair(a, b) == IF StrLess(b, a) THEN <<b, a>> ELSE <<a, b>>

\* bool(x) of an optional text value
Truthy(x) == x # None /\ x # ""

\* pole labels, as ASCII codes
duty == <<100, 117, 116, 121>>

desire == <<100, 101, 115, 105, 114, 101>>

public == <<112, 117, 98, 108, 105, 99>>

private == <<112, 114, 105, 118, 97, 116, 101>>

reason == <<114, 101, 97, 115, 111, 110>>

emotion == <<101, 109, 111, 116, 105, 111, 110>>

unknown == <<117, 110, 107, 110, 111, 119, 110>>

(***************************************************************************)
(* Exact fractions                                                          *)
(***************************************************************************)
RECURSIVE GCD(_, _)
GCD(a, b) == IF b = 0 THEN a ELSE GCD(b, a % b)

Frac(n, d) ==
    LET g == GCD(Abs(n), Abs(d))
        s == IF d < 0 THEN -1 ELSE 1
    IN  <<(s * n) \div g, (s * d) \div g>>

FAdd(x, y) == Frac(x[1] * y[2] + y[1] * x[2], x[2] * y[2])

FMul(x, y) == Frac(x[1] * y[1], x[2] * y[2])

FDiv(x, y) == Frac(x[1] * y[2], x[2] * y[1])

FLess(x, y) == x[1] * y[2] < y[1] * x[2]

FOne == Frac(1, 1)

\* a decimal held in hundredths, as a fraction
Hundredths(n) == Frac(n, 100)

(***************************************************************************)
(* retrieval.py: HybridRetriever                                           *)
(***************************************************************************)
\* the default weight dict of HybridRetriever.__init__, in hundredths
DefaultWeights ==
    [pair |-> 32, single |-> 12, cluster |-> 16, scar_phase |-> 14,
     bias |-> 10, refusal |-> 10, mask |-> 6]

\* the weights argument of the constructor: None or an empty dict (both written
\* <<>>, both falsy) and two custom dicts; the second differs from the default
\* only in the weights the scorer does not read
CustomWeights ==
    [pair |-> 50, single |-> 0, cluster |-> 0, scar_phase |-> 20,
     bias |-> 5, refusal |-> 25, mask |-> 0]

WeightArgs ==
    { <<>>,
      CustomWeights,
      [pair |-> 32, single |-> 40, cluster |-> 2, scar_phase |-> 14,
       bias |-> 10, refusal |-> 10, mask |-> 2] }

\* self.weights = weights or {...}: None and the empty dict are falsy
RetrieverInit(w) == IF DOMAIN w = {} THEN DefaultWeights ELSE w

\* ScoreOne with the refusal boost dropped from the sum
ScoreOneNoRefusalBoost(c, w) ==
    LET vector_score == FDiv(FOne, FAdd(FOne, Get(c, "distance", FOne)))
        scar_score == Get(c, "scar_valence", 50)
        phase_weight == Get(c, "life_phase_weight", 50)
        direction == Get(c, "collapse_direction", "")
        balance_score == IF direction = "balanced" THEN 110 ELSE 100
        hybrid_score ==
            FAdd(FAdd(FMul(Hundredths(w["pair"]), vector_score),
                      FMul(Hundredths(w["scar_phase"]),
                           FMul(Hundredths(scar_score), Hundredths(phase_weight)))),
                 FAdd(FMul(Hundredths(w["refusal"]), Hundredths(100)),
                      FMul(Hundredths(w["bias"]), Hundredths(balance_score))))
    IN  Put(Put(Put(c, "hybrid_score", hybrid_score),
                "vector_score", vector_score),
            "scar_score", scar_score)

\* ScoreOne with the distance itself taken as the vector score
ScoreOneDistanceAsScore(c, w) ==
    LET vector_score == Get(c, "distance", FOne)
        scar_score == Get(c, "scar_valence", 50)
        phase_weight == Get(c, "life_phase_weight", 50)
        refusal_boost == IF Get(c, "refusal", FALSE) THEN 120 ELSE 100
        direction == Get(c, "collapse_direction", "")
        balance_score == IF direction = "balanced" THEN 110 ELSE 100
        hybrid_score ==
            FAdd(FAdd(FMul(Hundredths(w["pair"]), vector_score),
                      FMul(Hundredths(w["scar_phase"]),
                           FMul(Hundredths(scar_score), Hundredths(phase_weight)))),
                 FAdd(FMul(Hundredths(w["refusal"]), Hundredths(refusal_boost)),
                      FMul(Hundredths(w["bias"]), Hundredths(balance_score))))
    IN  Put(Put(Put(c, "hybrid_score", hybrid_score),
                "vector_score", vector_score),
            "scar_score", scar_score)

\* the loop body of _score_contradictions: the dict c with its three score keys set
ScoreOne(c, w) ==
    LET vector_score == FDiv(FOne, FAdd(FOne, Get(c, "distance", FOne)))
        scar_score == Get(c, "scar_valence", 50)
        phase_weight == Get(c, "life_phase_weight", 50)
        refusal_boost == IF Get(c, "refusal", FALSE) THEN 120 ELSE 100
        direction == Get(c, "collapse_direction", "")
        balance_score == IF direction = "balanced" THEN 110 ELSE 100
        hybrid_score ==
            FAdd(FAdd(FMul(Hundredths(w["pair"]), vector_score),
                      FMul(Hundredths(w["scar_phase"]),
                           FMul(Hundredths(scar_score), Hundredths(phase_weight)))),
                 FAdd(FMul(Hundredths(w["refusal"]), Hundredths(refusal_boost)),
                      FMul(Hundredths(w["bias"]), Hundredths(balance_score))))
    IN  Put(Put(Put(c, "hybrid_score", hybrid_score),
                "vector_score", vector_score),
            "scar_score", scar_score)

\* _score_contradictions: every dict of the list is scored and appended, in order
score_contradictions(cs, w) == [i \in 1..Len(cs) |-> ScoreOne(cs[i], w)]

\* sorted(scored, key=hybrid_score, reverse=True): Python's sort is stable, also
\* with reverse=True, so equal scores keep their order in the input list
RECURSIVE InsertByScoreDesc(_, _)
InsertByScoreDesc(sorted, c) ==
    IF sorted = <<>> THEN <<c>>
    ELSE IF FLess(Head(sorted)["hybrid_score"], c["hybrid_score"])
         THEN <<c>> \o sorted
         ELSE <<Head(sorted)>> \o InsertByScoreDesc(Tail(sorted), c)

RECURSIVE SortFrom(_, _)
SortFrom(done, rest) ==
    IF rest = <<>> THEN done
    ELSE SortFrom(InsertByScoreDesc(done, Head(rest)), Tail(rest))

\* the same sort written as an ascending stable sort that is then reversed
\* (sorted(...)[::-1]): equal scores come out in reverse input order
RECURSIVE InsertByScoreDescTiesReversed(_, _)
InsertByScoreDescTiesReversed(sorted, c) ==
    IF sorted = <<>> THEN <<c>>
    ELSE IF FLess(c["hybrid_score"], Head(sorted)["hybrid_score"])
         THEN <<Head(sorted)>> \o InsertByScoreDescTiesReversed(Tail(sorted), c)
         ELSE <<c>> \o sorted

RECURSIVE SortFromTiesReversed(_, _)
SortFromTiesReversed(done, rest) ==
    IF rest = <<>> THEN done
    ELSE SortFromTiesReversed(InsertByScoreDescTiesReversed(done, Head(rest)), Tail(rest))

SortedTiesReversed(scored) == SortFromTiesReversed(<<>>, scored)

SortedByScoreDesc(scored) == SortFrom(<<>>, scored)

(***************************************************************************)
(* store.py: SupabaseStore, table contradictions                           *)
(***************************************************************************)
\* NULL in the embedding column (a pgvector has at least one dimension)
NoEmbedding == <<>>

\* the columns save_contradiction writes that the model keeps
RowColumns ==
    {"pole_a", "pole_b", "collapse_direction", "scar_valence", "refusal",
     "life_phase", "life_phase_weight", "mask_inner", "mask_outer", "summary",
     "embedding"}

\* save_contradiction: INSERT of data.get(column) for every column, refusal
\* defaulting to False, a missing text column or embedding to NULL; the id is
\* the row's serial number
save_contradiction(rows, data) ==
    Append(rows,
        [k \in RowColumns \cup {"id"} |->
            CASE k = "id" -> Len(rows) + 1
              [] k = "refusal" -> Get(data, "refusal", FALSE)
              [] k = "embedding" -> Get(data, "embedding", NoEmbedding)
              [] OTHER -> Get(data, k, None)])

\* embedding <-> query: Euclidean distance, of one-dimensional vectors here
Distance(e, q) == Frac(Abs(e[1] - q[1]), 1)

\* the columns search_contradictions selects, and the computed distance
SearchColumns ==
    {"id", "pole_a", "pole_b", "collapse_direction", "scar_valence",
     "life_phase", "summary"}

SearchRow(row, q) ==
    [k \in SearchColumns \cup {"distance"} |->
        IF k = "distance" THEN Distance(row["embedding"], q) ELSE row[k]]

\* all orders of the index set idx
RECURSIVE Orders(_)
Orders(idx) ==
    IF idx = {} THEN {<<>>}
    ELSE UNION {{<<x>> \o p : p \in Orders(idx \ {x})} : x \in idx}

\* search_contradictions: the rows WHERE embedding IS NOT NULL, ORDER BY distance,
\* LIMIT limit.  SQL leaves the order of rows at equal distance open, so every
\* order that is ascending in distance is a possible answer.
search_contradictions(rows, q, limit) ==
    LET idx == {i \in DOMAIN rows : rows[i]["embedding"] # NoEmbedding}
        asc(p) == \A i, j \in DOMAIN p :
                    i < j => ~FLess(Distance(rows[p[j]]["embedding"], q),
                                    Distance(rows[p[i]]["embedding"], q))
    IN  {Prefix([i \in DOMAIN p |-> SearchRow(rows[p[i]], q)], limit) :
            p \in {o \in Orders(idx) : asc(o)}}

\* the columns get_contradictions selects, of those the model keeps
GetColumns ==
    {"id", "pole_a", "pole_b", "collapse_direction", "scar_valence", "refusal",
     "life_phase", "life_phase_weight", "summary"}

\* rows i and j differ in their id only
SameButId(rows, i, j) == \A k \in RowColumns : rows[i][k] = rows[j][k]

\* the orders of the index set idx that descend in scar_valence.  Rows that differ
\* in their id only are taken in id order: which of two such rows comes first
\* changes the ids at two places of the list read and no other value.
RECURSIVE DescOrders(_, _)
DescOrders(rows, idx) ==
    IF idx = {} THEN {<<>>}
    ELSE LET top == {i \in idx : \A j \in idx : rows[j]["scar_valence"] <= rows[i]["scar_valence"]}
             first == {i \in top : \A j \in top : SameButId(rows, i, j) => i <= j}
         IN  UNION {{<<x>> \o p : p \in DescOrders(rows, idx \ {x})} : x \in first}

\* a read that misses the row inserted last
get_contradictions_before_last(rows, limit) ==
    {Prefix([i \in DOMAIN p |-> [k \in GetColumns |-> rows[p[i]][k]]], limit) :
        p \in DescOrders(rows, DOMAIN rows \ {Len(rows)})}

\* get_contradictions: ORDER BY scar_valence DESC, LIMIT limit.  SQL leaves the
\* order of rows of equal scar_valence open, so every descending order is a
\* possible answer.
get_contradictions(rows, limit) ==
    {Prefix([i \in DOMAIN p |-> [k \in GetColumns |-> rows[p[i]][k]]], limit) :
        p \in DescOrders(rows, DOMAIN rows)}

\* the default limit of get_contradictions
DefaultLimit == 200

\* save_graph_edge: a plain INSERT
save_graph_edge(rows, edge) == Append(rows, edge)

\* HybridRetriever.retrieve, the tension part: search 2 * top_k rows, score them,
\* sort by hybrid score descending, keep the first top_k
retrieve_top(found, w, top_k) ==
    Prefix(SortedByScoreDesc(score_contradictions(found, w)), top_k)


(***************************************************************************)
(* clear_gate.py: CLEARGate                                                *)
(***************************************************************************)
\* the reason of a call that does not refuse (Python None)
NoReason == <<>>

\* sorted(refusal_contras, key=scar_valence or 0, reverse=True): stable
RECURSIVE InsertByScarDesc(_, _)
InsertByScarDesc(sorted, c) ==
    IF sorted = <<>> THEN <<c>>
    ELSE IF Get(Head(sorted), "scar_valence", 0) < Get(c, "scar_valence", 0)
         THEN <<c>> \o sorted
         ELSE <<Head(sorted)>> \o InsertByScarDesc(Tail(sorted), c)

RECURSIVE SortByScarFrom(_, _)
SortByScarFrom(done, rest) ==
    IF rest = <<>> THEN done
    ELSE SortByScarFrom(InsertByScarDesc(done, Head(rest)), Tail(rest))

SortedByScarDesc(cs) == SortByScarFrom(<<>>, cs)

\* [c for c in contradictions if c.get('refusal', False)]
RECURSIVE RefusalContras(_)
RefusalContras(cs) ==
    IF cs = <<>> THEN <<>>
    ELSE IF Get(Head(cs), "refusal", FALSE)
         THEN <<Head(cs)>> \o RefusalContras(Tail(cs))
         ELSE RefusalContras(Tail(cs))

\* the loop body of _calculate_refusal_score: one tension's total, in hundredths
RefusalTotal(query, c) ==
    LET scar == Get(c, "scar_valence", 50)
        pole_a == Lower(Get(c, "pole_a", <<>>))
        pole_b == Lower(Get(c, "pole_b", <<>>))
        query_lower == Lower(query)
        pole_match == (IF Contains(pole_a, query_lower) THEN 20 ELSE 0)
                      + (IF Contains(pole_b, query_lower) THEN 20 ELSE 0)
        phase == Get(c, "life_phase", "")
        phase_weight == Get(c, "life_phase_weight", 50)
        phase_boost == IF phase = "late" /\ phase_weight > 70 THEN 10 ELSE 0
    IN  Min(100, scar + pole_match + phase_boost)

RECURSIVE MaxTotal(_, _)
MaxTotal(query, cs) ==
    IF cs = <<>> THEN 0
    ELSE Max(RefusalTotal(query, Head(cs)), MaxTotal(query, Tail(cs)))

\* _calculate_refusal_score: 0 for an empty list, else the largest total
calculate_refusal_score(query, refusal_contras) ==
    IF refusal_contras = <<>> THEN 0 ELSE MaxTotal(query, refusal_contras)

\* _build_refusal_reason; the message is left as the parts the f-string puts in it
build_refusal_reason(c) ==
    LET pole_a == Get(c, "pole_a", unknown)
        pole_b == Get(c, "pole_b", unknown)
        summary == Get(c, "summary", "")
    IN  [should_refuse |-> TRUE,
         message |-> <<pole_a, pole_b>> \o (IF summary # "" THEN <<summary>> ELSE <<>>),
         poles |-> <<pole_a, pole_b>>,
         scar_valence |-> Get(c, "scar_valence", 0),
         life_phase |-> Get(c, "life_phase", "unknown"),
         event |-> Get(c, "event", "")]

\* every refusal tension in descending scar_valence, none cut off
AllRefusalByScar(cs) == SortedByScarDesc(RefusalContras(cs))

\* the three refusal tensions evaluate scores: sorted(...)[:3]
TopRefusal(cs) == Prefix(SortedByScarDesc(RefusalContras(cs)), 3)

\* evaluate with the early return on an empty refusal list left out
evaluate_no_early_return(query, cs, strict) ==
    LET top_refusal == TopRefusal(cs)
        should_refuse == calculate_refusal_score(query, top_refusal) >= strict
    IN  IF should_refuse /\ top_refusal # <<>>
        THEN [should_refuse |-> TRUE, reason |-> build_refusal_reason(top_refusal[1])]
        ELSE [should_refuse |-> should_refuse, reason |-> NoReason]

\* CLEARGate.evaluate(query, contradictions): (should_refuse, refusal_reason)
evaluate(query, cs, strict) ==
    LET refusal_contras == RefusalContras(cs)
        top_refusal == TopRefusal(cs)
        refusal_score == calculate_refusal_score(query, top_refusal)
        should_refuse == refusal_score >= strict
    IN  IF refusal_contras = <<>>
        THEN [should_refuse |-> FALSE, reason |-> NoReason]
        ELSE IF should_refuse
             THEN [should_refuse |-> TRUE, reason |-> build_refusal_reason(top_refusal[1])]
             ELSE [should_refuse |-> FALSE, reason |-> NoReason]

\* the caller's list after evaluate, had it sorted the list in place
\* (contradictions.sort(key=..., reverse=True))
ListSortedInPlace(cs) == SortedByScarDesc(cs)

\* the caller's list after evaluate: sorted() and the comprehension build new
\* lists and no dict is assigned to, so it is the list as it was
ListAfterEvaluate(cs) == cs


(***************************************************************************)
(* graph.py: GraphBuilder                                                  *)
(***************************************************************************)
\* the defaultdict entry of a pole pair not seen before
NewPair(key) ==
    [key |-> key, frequency |-> 0, scar_sum |-> 0, scar_max |-> 0, refusal_count |-> 0,
     toward_a |-> 0, toward_b |-> 0, balanced |-> 0, phases |-> <<>>, masks |-> {},
     summaries |-> <<>>]

\* the pair's entry with tension c added, scar_max being the scar of the last one
AddTensionLastScar(data, c) ==
    LET scar == Get(c, "scar_valence", 0)
        direction == Get(c, "collapse_direction", "")
        phase == Get(c, "life_phase", None)
        mask_inner == Get(c, "mask_inner", None)
        mask_outer == Get(c, "mask_outer", None)
        summary == Get(c, "summary", "")
    IN  [key |-> data["key"],
         frequency |-> data["frequency"] + 1,
         scar_sum |-> data["scar_sum"] + scar,
         scar_max |-> scar,
         refusal_count |-> data["refusal_count"] + (IF Get(c, "refusal", FALSE) THEN 1 ELSE 0),
         toward_a |-> data["toward_a"] + (IF direction = "toward_a" THEN 1 ELSE 0),
         toward_b |-> data["toward_b"] + (IF direction = "toward_b" THEN 1 ELSE 0),
         balanced |-> data["balanced"] + (IF direction = "balanced" THEN 1 ELSE 0),
         phases |-> IF Truthy(phase) THEN Append(data["phases"], phase) ELSE data["phases"],
         masks |-> data["masks"] \cup (IF Truthy(mask_inner) THEN {mask_inner} ELSE {})
                                 \cup (IF Truthy(mask_outer) THEN {mask_outer} ELSE {}),
         summaries |-> IF Truthy(summary) THEN Append(data["summaries"], summary)
                       ELSE data["summaries"]]

\* the "# Aggregate" part of the loop body: the pair's entry with tension c added
AddTension(data, c) ==
    LET scar == Get(c, "scar_valence", 0)
        direction == Get(c, "collapse_direction", "")
        phase == Get(c, "life_phase", None)
        mask_inner == Get(c, "mask_inner", None)
        mask_outer == Get(c, "mask_outer", None)
        summary == Get(c, "summary", "")
    IN  [key |-> data["key"],
         frequency |-> data["frequency"] + 1,
         scar_sum |-> data["scar_sum"] + scar,
         scar_max |-> Max(data["scar_max"], scar),
         refusal_count |-> data["refusal_count"] + (IF Get(c, "refusal", FALSE) THEN 1 ELSE 0),
         toward_a |-> data["toward_a"] + (IF direction = "toward_a" THEN 1 ELSE 0),
         toward_b |-> data["toward_b"] + (IF direction = "toward_b" THEN 1 ELSE 0),
         balanced |-> data["balanced"] + (IF direction = "balanced" THEN 1 ELSE 0),
         phases |-> IF Truthy(phase) THEN Append(data["phases"], phase) ELSE data["phases"],
         masks |-> data["masks"] \cup (IF Truthy(mask_inner) THEN {mask_inner} ELSE {})
                                 \cup (IF Truthy(mask_outer) THEN {mask_outer} ELSE {}),
         summaries |-> IF Truthy(summary) THEN Append(data["summaries"], summary)
                       ELSE data["summaries"]]

\* pole_pairs is a dict: a list of entries in the order their keys were first
\* seen.  pole_pairs[key] updated by f, the entry made first if the key is new
UpdatePair(pole_pairs, key, c) ==
    IF \E i \in DOMAIN pole_pairs : pole_pairs[i]["key"] = key
    THEN [i \in DOMAIN pole_pairs |->
            IF pole_pairs[i]["key"] = key THEN AddTension(pole_pairs[i], c)
            ELSE pole_pairs[i]]
    ELSE Append(pole_pairs, AddTension(NewPair(key), c))

\* the key of a tension: its two trimmed poles, sorted
PairKey(pole_a, pole_b) == SortedPair(pole_a, pole_b)

\* _aggregate_contradictions: the loop over the tension list
RECURSIVE AggregateFrom(_, _)
AggregateFrom(pole_pairs, cs) ==
    IF cs = <<>> THEN pole_pairs
    ELSE LET c == Head(cs)
             pole_a == Strip(Get(c, "pole_a", <<>>))
             pole_b == Strip(Get(c, "pole_b", <<>>))
         IN  IF pole_a = <<>> \/ pole_b = <<>>
             THEN AggregateFrom(pole_pairs, Tail(cs))
             ELSE AggregateFrom(UpdatePair(pole_pairs, PairKey(pole_a, pole_b), c), Tail(cs))

aggregate_contradictions(cs) == AggregateFrom(<<>>, cs)

\* the share of toward_b among the directed tensions
DirectionBiasShareOfB(data) ==
    LET total_directed == data["toward_a"] + data["toward_b"]
    IN  IF total_directed > 0 THEN Frac(data["toward_b"], total_directed) ELSE Frac(0, 1)

\* the direction bias of _save_edges and _build_edges
DirectionBias(data) ==
    LET total_directed == data["toward_a"] + data["toward_b"]
    IN  IF total_directed > 0
        THEN Frac(data["toward_b"] - data["toward_a"], total_directed)
        ELSE Frac(0, 1)

\* the row save_graph_edge inserts
EdgeRow(pole_a, pole_b, frequency, direction_bias, scar_sum, refusal_present) ==
    [pole_a |-> pole_a, pole_b |-> pole_b, frequency |-> frequency,
     direction_bias |-> direction_bias, scar_sum |-> scar_sum,
     refusal_present |-> refusal_present]

\* _save_edges: the rows it inserts, one per pole pair, in dict order
save_edges(pole_pairs) ==
    [i \in DOMAIN pole_pairs |->
        LET data == pole_pairs[i]
        IN  EdgeRow(data["key"][1], data["key"][2], data["frequency"],
                    DirectionBias(data), data["scar_sum"], data["refusal_count"] > 0)]

\* _build_edges: the edge dicts of the visualization, in dict order
build_edges(pole_pairs) ==
    [i \in DOMAIN pole_pairs |->
        LET data == pole_pairs[i]
        IN  [source |-> data["key"][1], target |-> data["key"][2],
             frequency |-> data["frequency"],
             weight |-> Min(10, data["frequency"]),
             scar |-> Frac(data["scar_sum"], data["frequency"]),
             scar_max |-> data["scar_max"],
             refusal |-> data["refusal_count"] > 0,
             direction_bias |-> DirectionBias(data),
             phases |-> Range(data["phases"]),
             masks |-> data["masks"]]]

\* _build_nodes: pole_stats, in the order the poles are first met
RECURSIVE PoleStatsFrom(_, _)
PoleStatsFrom(stats, visits) ==
    IF visits = <<>> THEN stats
    ELSE LET pole == Head(visits)[1]
             data == Head(visits)[2]
             add(st) == [pole |-> pole,
                         total_frequency |-> st["total_frequency"] + data["frequency"],
                         total_scar |-> st["total_scar"] + data["scar_sum"],
                         refusal_count |-> st["refusal_count"] + data["refusal_count"],
                         connections |-> st["connections"] + 1]
             fresh == [pole |-> pole, total_frequency |-> 0, total_scar |-> 0,
                       refusal_count |-> 0, connections |-> 0]
         IN  IF \E i \in DOMAIN stats : stats[i]["pole"] = pole
             THEN PoleStatsFrom([i \in DOMAIN stats |->
                                    IF stats[i]["pole"] = pole THEN add(stats[i])
                                    ELSE stats[i]],
                                Tail(visits))
             ELSE PoleStatsFrom(Append(stats, add(fresh)), Tail(visits))

\* for (pole_a, pole_b), data in pole_pairs.items(): for pole in [pole_a, pole_b]
RECURSIVE PoleVisits(_)
PoleVisits(pole_pairs) ==
    IF pole_pairs = <<>> THEN <<>>
    ELSE <<<<Head(pole_pairs)["key"][1], Head(pole_pairs)>>,
           <<Head(pole_pairs)["key"][2], Head(pole_pairs)>>>>
         \o PoleVisits(Tail(pole_pairs))

build_nodes(pole_pairs) ==
    LET pole_stats == PoleStatsFrom(<<>>, PoleVisits(pole_pairs))
    IN  [i \in DOMAIN pole_stats |->
            [id |-> pole_stats[i]["pole"], label |-> pole_stats[i]["pole"],
             size |-> Min(50, 10 + pole_stats[i]["total_frequency"] * 5),
             frequency |-> pole_stats[i]["total_frequency"],
             scar |-> pole_stats[i]["total_scar"],
             refusal |-> pole_stats[i]["refusal_count"] > 0,
             connections |-> pole_stats[i]["connections"]]]

\* the limit build_graph reads the tensions with
GraphLimit == 500

\* build_graph after the tensions are read: nothing for an empty list, else the
\* edge rows to store and the nodes and edges to return
build_graph(cs) ==
    IF cs = <<>>
    THEN [stored |-> <<>>, nodes |-> <<>>, edges |-> <<>>]
    ELSE LET pole_pairs == aggregate_contradictions(cs)
         IN  [stored |-> save_edges(pole_pairs),
              nodes |-> build_nodes(pole_pairs),
              edges |-> build_edges(pole_pairs)]

(***************************************************************************)
(* modules/app.py: the graph step of run_build_pipeline                    *)
(***************************************************************************)
PipelineNewPair(key) ==
    [key |-> key, frequency |-> 0, scar_sum |-> 0, refusal_count |-> 0,
     toward_a |-> 0, toward_b |-> 0]

PipelineAddTension(data, c) ==
    [key |-> data["key"],
     frequency |-> data["frequency"] + 1,
     scar_sum |-> data["scar_sum"] + c["scar_valence"],
     refusal_count |-> data["refusal_count"] + (IF c["refusal"] THEN 1 ELSE 0),
     toward_a |-> data["toward_a"] + (IF c["collapse_direction"] = "toward_a" THEN 1 ELSE 0),
     toward_b |-> data["toward_b"] + (IF c["collapse_direction"] = "toward_b" THEN 1 ELSE 0)]

\* the loop over the tensions: the key is the sorted pair of the poles as stored
RECURSIVE PipelinePairsFrom(_, _)
PipelinePairsFrom(pole_pairs, cs) ==
    IF cs = <<>> THEN pole_pairs
    ELSE LET c == Head(cs)
             key == SortedPair(c["pole_a"], c["pole_b"])
             updated ==
                IF \E i \in DOMAIN pole_pairs : pole_pairs[i]["key"] = key
                THEN [i \in DOMAIN pole_pairs |->
                        IF pole_pairs[i]["key"] = key
                        THEN PipelineAddTension(pole_pairs[i], c)
                        ELSE pole_pairs[i]]
                ELSE Append(pole_pairs, PipelineAddTension(PipelineNewPair(key), c))
         IN  PipelinePairsFrom(updated, Tail(cs))

\* the edge rows the pipeline stores: the bias is divided by the frequency
pipeline_edges(cs) ==
    LET pole_pairs == PipelinePairsFrom(<<>>, cs)
    IN  [i \in DOMAIN pole_pairs |->
            LET data == pole_pairs[i]
            IN  EdgeRow(data["key"][1], data["key"][2], data["frequency"],
                        Frac(data["toward_b"] - data["toward_a"], data["frequency"]),
                        data["scar_sum"], data["refusal_count"] > 0)]

\* the sample tensions the pipeline saves
mock_contradictions ==
    << [pole_a |-> duty, pole_b |-> desire, collapse_direction |-> "toward_b",
        scar_valence |-> 85, life_phase |-> "mid", life_phase_weight |-> 60,
        summary |-> "Tension between stoic duty and human desire", refusal |-> FALSE,
        mask_inner |-> "Desire", mask_outer |-> "Control"],
       [pole_a |-> public, pole_b |-> private, collapse_direction |-> "balanced",
        scar_valence |-> 72, life_phase |-> "late", life_phase_weight |-> 80,
        summary |-> "Balance between public duty and private reflection",
        refusal |-> FALSE],
       [pole_a |-> reason, pole_b |-> emotion, collapse_direction |-> "toward_a",
        scar_valence |-> 91, life_phase |-> "early", life_phase_weight |-> 30,
        summary |-> "Privileging reason over emotion in decision-making",
        refusal |-> TRUE, mask_inner |-> "Control", mask_outer |-> "Knowledge"] >>

\* for c in mock_contradictions: store.save_contradiction(kernel_id, c)
RECURSIVE SaveAll(_, _)
SaveAll(rows, cs) ==
    IF cs = <<>> THEN rows ELSE SaveAll(save_contradiction(rows, Head(cs)), Tail(cs))

\* for each edge: store.save_graph_edge(...)
RECURSIVE SaveAllEdges(_, _)
SaveAllEdges(rows, edges) ==
    IF edges = <<>> THEN rows
    ELSE SaveAllEdges(save_graph_edge(rows, Head(edges)), Tail(edges))

\* update_batch(batch_id, status, step): UPDATE ... WHERE id = batch_id
update_batch(rows, batch_id, status, step, progress) ==
    [i \in DOMAIN rows |->
        IF i = batch_id THEN [status |-> status, step |-> step, progress |-> progress]
        ELSE rows[i]]

\* create_batch: INSERT with status 'queued'
create_batch(rows) == Append(rows, [status |-> "queued", step |-> None, progress |-> 0])

(***************************************************************************)
(* Inputs of the scoring and retrieval operations                          *)
(***************************************************************************)
\* a dict with the keys of present that f gives a value
DictOf(f, present) == [k \in present |-> f[k]]

ScoreKeys == {"distance", "scar_valence", "life_phase_weight", "refusal", "collapse_direction"}

\* tension dicts handed to _score_contradictions directly: every combination of
\* present and missing score keys, over a few values, plus a field it must ignore
ScoreDicts ==
    {DictOf([distance |-> d, scar_valence |-> s, life_phase_weight |-> p,
             refusal |-> r, collapse_direction |-> c, life_phase |-> l],
            present \cup {"life_phase"}) :
        d \in {Frac(0, 1), Frac(3, 2)}, s \in {90}, p \in {30},
        r \in BOOLEAN, c \in {"balanced", "toward_a"}, l \in {"early", "late"},
        present \in SUBSET ScoreKeys}

\* the dicts that longer argument lists are made of
FewScoreDicts ==
    { [distance |-> Frac(0, 1), scar_valence |-> 90, life_phase_weight |-> 30,
       refusal |-> TRUE, collapse_direction |-> "balanced"],
      [distance |-> Frac(3, 2), scar_valence |-> 20, life_phase_weight |-> 100,
       refusal |-> FALSE, collapse_direction |-> "toward_b"],
      [scar_valence |-> 90, refusal |-> TRUE, collapse_direction |-> "balanced"],
      [distance |-> Frac(2, 1)] }

ScoreArgLists ==
    {<<c>> : c \in ScoreDicts}
    \cup UNION {[1..n -> FewScoreDicts] : n \in 0..MaxScoreArgs}

\* data dicts handed to save_contradiction on the retrieval side: with and
\* without an embedding, and with stored values that differ from the scorer's defaults
RetrievalData ==
    {[pole_a |-> duty, pole_b |-> desire, collapse_direction |-> "balanced",
      scar_valence |-> f[1], refusal |-> f[2], life_phase |-> "mid",
      life_phase_weight |-> f[3], embedding |-> f[4]] :
        f \in {<<50, FALSE, 50, <<0>> >>, <<50, FALSE, 50, <<1>> >>,
               <<50, TRUE, 80, <<0>> >>, <<90, FALSE, 50, <<0>> >>}}
    \cup {[pole_a |-> duty, pole_b |-> desire, collapse_direction |-> "balanced",
           scar_valence |-> 90, refusal |-> TRUE, life_phase |-> "mid",
           life_phase_weight |-> 80]}

\* tension dicts handed to the gate: refusal tensions that reach 0.8 only through
\* the late-phase boost (0.7 + 0.1), outright (0.9), only through the query naming
\* both poles (0.6 + 0.4), or not at all (0.75, late but weight 0.7); a tension
\* that is no refusal; and a search row, which has no refusal key
GateDicts ==
    { [id |-> 1, pole_a |-> duty, pole_b |-> desire, scar_valence |-> 70, refusal |-> TRUE,
       life_phase |-> "late", life_phase_weight |-> 80],
      [id |-> 2, pole_a |-> reason, pole_b |-> emotion, scar_valence |-> 90, refusal |-> TRUE,
       life_phase |-> "early", life_phase_weight |-> 30],
      [id |-> 3, pole_a |-> <<68>> \o Tail(duty), pole_b |-> desire, scar_valence |-> 60,
       refusal |-> TRUE, life_phase |-> "early", life_phase_weight |-> 50],
      [id |-> 4, pole_a |-> public, pole_b |-> private, scar_valence |-> 75, refusal |-> TRUE,
       life_phase |-> "late", life_phase_weight |-> 70],
      [id |-> 5, pole_a |-> duty, pole_b |-> desire, scar_valence |-> 95, refusal |-> FALSE,
       life_phase |-> "late", life_phase_weight |-> 80],
      [id |-> 6, pole_a |-> duty, pole_b |-> desire, scar_valence |-> 95,
       life_phase |-> "late"] }

\* the refusal tensions, of which the longest lists are made
RefusalGateDicts == {c \in GateDicts : Get(c, "refusal", FALSE)}

GateLists ==
    UNION {[1..n -> GateDicts] : n \in 0..(MaxGateList - 1)}
    \cup [1..MaxGateList -> RefusalGateDicts]

\* "", "Duty" and "Desire duty"
GateQueries ==
    { <<>>,
      <<68>> \o Tail(duty),
      <<68>> \o Tail(desire) \o <<32>> \o duty }

\* CLEARGate(strictness): the default 0.8, and the ends of the documented range 0-1
Strictnesses == {0, 80, 100}

NoGateResult == [called |-> FALSE, should_refuse |-> FALSE, reason |-> NoReason]

QueryEmbeddings == {<<0>>}

TopKs == {1, 2}

NoRetrieval ==
    [called |-> FALSE, query_embedding |-> <<>>, top_k |-> 0, searched |-> <<>>,
     scored |-> <<>>, contradictions |-> <<>>]

\* tension dicts handed to _aggregate_contradictions directly: the same pair in
\* both orders, padded, in another case, with a blank and with an empty pole,
\* another pair, a pair of one label, and a dict of poles only
AggDicts ==
    { [pole_a |-> duty, pole_b |-> desire, collapse_direction |-> "toward_b",
       scar_valence |-> 85, refusal |-> FALSE, life_phase |-> "mid",
       mask_inner |-> "Desire", mask_outer |-> "Control", summary |-> "s1"],
      [pole_a |-> desire, pole_b |-> duty, collapse_direction |-> "balanced",
       scar_valence |-> 40, refusal |-> TRUE, life_phase |-> "late", summary |-> "s2"],
      [pole_a |-> <<32>> \o duty \o <<32>>, pole_b |-> desire \o <<10>>,
       collapse_direction |-> "toward_a", scar_valence |-> 60, refusal |-> FALSE,
       life_phase |-> None, summary |-> ""],
      [pole_a |-> <<68>> \o Tail(duty), pole_b |-> desire,
       collapse_direction |-> "unknown", scar_valence |-> 30, refusal |-> FALSE],
      [pole_a |-> <<32, 32>>, pole_b |-> desire, collapse_direction |-> "toward_b",
       scar_valence |-> 90, refusal |-> TRUE],
      [pole_a |-> duty, pole_b |-> <<>>, collapse_direction |-> "toward_a",
       scar_valence |-> 90, refusal |-> TRUE],
      [pole_a |-> reason, pole_b |-> duty, collapse_direction |-> "toward_a",
       scar_valence |-> 91, refusal |-> TRUE, life_phase |-> "early",
       mask_inner |-> "Control"],
      [pole_a |-> duty, pole_b |-> duty, collapse_direction |-> "balanced",
       scar_valence |-> 10, refusal |-> FALSE],
      [pole_a |-> public, pole_b |-> private] }

AggLists == UNION {[1..n -> AggDicts] : n \in 0..MaxAggArgs}

NoAggregate == [called |-> FALSE, pole_pairs |-> <<>>, nodes |-> <<>>, edges |-> <<>>]

\* data dicts saved beside the pipeline's samples: on the samples' first pair, in
\* both orders, balanced and directed
BuildData ==
    { [pole_a |-> duty, pole_b |-> desire, collapse_direction |-> "balanced",
       scar_valence |-> 50, refusal |-> FALSE, life_phase |-> "mid",
       life_phase_weight |-> 50, summary |-> "s1"],
      [pole_a |-> desire, pole_b |-> duty, collapse_direction |-> "toward_a",
       scar_valence |-> 85, refusal |-> TRUE, life_phase |-> "late",
       life_phase_weight |-> 80, summary |-> "s2"] }

\* the kernel of the model, and an id no kernel has
KernelIds == {"k1", "k0"}

NoBuildResponse == [status |-> 0, batch_id |-> 0]

NoBuild == [path |-> None, read |-> <<>>, stored |-> <<>>, nodes |-> <<>>, edges |-> <<>>]

\* no POST /chat answered yet
NoChat == [status |-> 0, retrieved_contradictions |-> 0]

\* no retrieve_by_poles or get_mask_context call yet
NoQuery == [op |-> None, end |-> None, rows |-> <<>>]

\* IngestPipeline.run not called
NoIngest ==
    [pc |-> "idle", batch_id |-> 0, sources |-> <<>>, i |-> 0, all_chunks |-> <<>>,
     embeddings |-> <<>>, stored_count |-> 0, result |-> None, raised |-> None,
     handler |-> None]

(***************************************************************************)
(* Operations                                                              *)
(***************************************************************************)
\* store.save_contradiction(kernel_id, data)
SaveContradiction(data) ==
    /\ Len(contradictions) < MaxStored
    /\ contradictions' = save_contradiction(contradictions, data)
    /\ retrieved' = NoRetrieval
    /\ build_response' = NoBuildResponse
    /\ last_build' = NoBuild
    /\ UNCHANGED <<ingest_vars, query_vars, chunker_vars, composer_vars, graph_edges, weights, score_args, score_result, gate_vars,
                   graph_vars, kernel_status, batches, tasks>>

\* HybridRetriever._score_contradictions(contradictions, query_embedding)
ScoreCall(cs) ==
    /\ score_args' = cs
    /\ score_result' = score_contradictions(cs, weights)
    /\ UNCHANGED <<ingest_vars, query_vars, chunker_vars, composer_vars, store_vars, weights, retrieved, gate_vars, graph_vars, build_vars>>

\* HybridRetriever.retrieve(kernel_id, query, query_embedding, top_k)
Retrieve(q, top_k) ==
    /\ \E found \in search_contradictions(contradictions, q, top_k * 2) :
         retrieved' =
            [called |-> TRUE, query_embedding |-> q, top_k |-> top_k,
             searched |-> found,
             scored |-> score_contradictions(found, weights),
             contradictions |-> retrieve_top(found, weights, top_k)]
    /\ UNCHANGED <<ingest_vars, query_vars, chunker_vars, composer_vars, store_vars, weights, score_args, score_result, gate_vars,
                   graph_vars, build_vars>>

\* CLEARGate.evaluate(query, contradictions) on the caller's query and list
Evaluate ==
    /\ gate_result' =
          [called |-> TRUE,
           should_refuse |-> evaluate(gate_query, gate_contradictions, strictness)["should_refuse"],
           reason |-> evaluate(gate_query, gate_contradictions, strictness)["reason"]]
    /\ gate_contradictions' = ListAfterEvaluate(gate_contradictions)
    /\ UNCHANGED <<ingest_vars, query_vars, chunker_vars, composer_vars, store_vars, retriever_vars, strictness, gate_query,
                   graph_vars, build_vars>>

\* GraphBuilder._aggregate_contradictions on the caller's list, and the nodes and
\* edges _build_nodes and _build_edges make of its result
AggregateCall ==
    /\ agg_result' =
          [called |-> TRUE,
           pole_pairs |-> aggregate_contradictions(agg_args),
           nodes |-> build_nodes(aggregate_contradictions(agg_args)),
           edges |-> build_edges(aggregate_contradictions(agg_args))]
    /\ UNCHANGED <<ingest_vars, query_vars, chunker_vars, composer_vars, store_vars, retriever_vars, gate_vars, agg_args, build_vars>>

\* GraphBuilder.build_graph(kernel_id)
BuildGraph ==
    /\ Len(graph_edges) < MaxEdgeRows
    /\ \E cs \in get_contradictions(contradictions, GraphLimit) :
         /\ graph_edges' = SaveAllEdges(graph_edges, build_graph(cs)["stored"])
         /\ last_build' =
               [path |-> "build_graph", read |-> cs,
                stored |-> build_graph(cs)["stored"],
                nodes |-> build_graph(cs)["nodes"],
                edges |-> build_graph(cs)["edges"]]
    /\ build_response' = NoBuildResponse
    /\ UNCHANGED <<ingest_vars, query_vars, chunker_vars, composer_vars, contradictions, retriever_vars, gate_vars, graph_vars,
                   kernel_status, batches, tasks>>

\* POST /build for the kernel kernel_id; batch_id 0 is a request without a batch
BuildKernel(kernel_id, batch_id) ==
    /\ IF kernel_id # "k1"
       THEN /\ build_response' = [status |-> 404, batch_id |-> 0]
            /\ UNCHANGED <<kernel_status, batches, tasks>>
       ELSE LET new == batch_id = 0
                id == IF new THEN Len(batches) + 1 ELSE batch_id
            IN  /\ batches' = IF new THEN create_batch(batches) ELSE batches
                /\ kernel_status' = "building"
                /\ tasks' = Append(tasks, [batch_id |-> id, pc |-> "scheduled"])
                /\ build_response' = [status |-> 200, batch_id |-> id]
    /\ last_build' = NoBuild
    /\ UNCHANGED <<ingest_vars, query_vars, chunker_vars, composer_vars, store_vars, retriever_vars, gate_vars, graph_vars>>

\* task t moves to position pc
TaskAt(t, pc) == [tasks EXCEPT ![t]["pc"] = pc]

\* run_build_pipeline up to its first sleep
PipelineParse(t) ==
    /\ tasks[t]["pc"] = "scheduled"
    /\ batches' = update_batch(batches, tasks[t]["batch_id"], "parsing", "parse", 0)
    /\ tasks' = TaskAt(t, "parse_sleep")
    /\ build_response' = NoBuildResponse
    /\ last_build' = NoBuild
    /\ UNCHANGED <<ingest_vars, query_vars, chunker_vars, composer_vars, store_vars, retriever_vars, gate_vars, graph_vars, kernel_status>>

\* from the first sleep to the second
PipelineEmbed(t) ==
    /\ tasks[t]["pc"] = "parse_sleep"
    /\ batches' = update_batch(batches, tasks[t]["batch_id"], "embedding", "embed", 50)
    /\ tasks' = TaskAt(t, "embed_sleep")
    /\ build_response' = NoBuildResponse
    /\ last_build' = NoBuild
    /\ UNCHANGED <<ingest_vars, query_vars, chunker_vars, composer_vars, store_vars, retriever_vars, gate_vars, graph_vars, kernel_status>>

\* from the second sleep to the third
PipelineExtract(t) ==
    /\ tasks[t]["pc"] = "embed_sleep"
    /\ batches' = update_batch(batches, tasks[t]["batch_id"], "extracting", "contradictions", 75)
    /\ tasks' = TaskAt(t, "extract_sleep")
    /\ build_response' = NoBuildResponse
    /\ last_build' = NoBuild
    /\ UNCHANGED <<ingest_vars, query_vars, chunker_vars, composer_vars, store_vars, retriever_vars, gate_vars, graph_vars, kernel_status>>

\* from the third sleep to the fourth: the sample tensions are saved
PipelineCluster(t) ==
    /\ tasks[t]["pc"] = "extract_sleep"
    /\ contradictions' = SaveAll(contradictions, mock_contradictions)
    /\ retrieved' = NoRetrieval
    /\ batches' = update_batch(batches, tasks[t]["batch_id"], "clustering", "cluster", 90)
    /\ tasks' = TaskAt(t, "cluster_sleep")
    /\ build_response' = NoBuildResponse
    /\ last_build' = NoBuild
    /\ UNCHANGED <<ingest_vars, query_vars, chunker_vars, composer_vars, graph_edges, weights, score_args, score_result, gate_vars, graph_vars,
                   kernel_status>>

\* from the fourth sleep to the fifth
PipelineGraphing(t) ==
    /\ tasks[t]["pc"] = "cluster_sleep"
    /\ batches' = update_batch(batches, tasks[t]["batch_id"], "graphing", "graph", 95)
    /\ tasks' = TaskAt(t, "graph_sleep")
    /\ build_response' = NoBuildResponse
    /\ last_build' = NoBuild
    /\ UNCHANGED <<ingest_vars, query_vars, chunker_vars, composer_vars, store_vars, retriever_vars, gate_vars, graph_vars, kernel_status>>

\* from the fifth sleep to the end: the graph step, then done and ready
PipelineGraph(t) ==
    /\ tasks[t]["pc"] = "graph_sleep"
    /\ \E cs \in get_contradictions(contradictions, DefaultLimit) :
         /\ graph_edges' = SaveAllEdges(graph_edges, pipeline_edges(cs))
         /\ last_build' =
               [path |-> "run_build_pipeline", read |-> cs,
                stored |-> pipeline_edges(cs), nodes |-> <<>>, edges |-> <<>>]
    /\ batches' = update_batch(batches, tasks[t]["batch_id"], "done", "complete", 100)
    /\ kernel_status' = "ready"
    /\ tasks' = TaskAt(t, "returned")
    /\ build_response' = NoBuildResponse
    /\ UNCHANGED <<ingest_vars, query_vars, chunker_vars, composer_vars, contradictions, retriever_vars, gate_vars, graph_vars>>

\* the positions at which a run_build_pipeline task has ended: after 'ready', after
\* its except branch, and with an exception its except branch raised
EndedAt == {"returned", "failed", "died"}

\* update_batch(batch_id, "error", {"error": str(e)}): the step column becomes the
\* dict of the message, which names no step and no progress
update_batch_error(rows, batch_id) ==
    [i \in DOMAIN rows |->
        IF i = batch_id THEN [status |-> "error", step |-> "error", progress |-> 0]
        ELSE rows[i]]

\* the store raises in the first call task t makes after its position, and the
\* except branch runs: update_batch 'error', then update_kernel_status 'error'; the
\* store may raise again in either call, which ends the task with what was written
PipelineFail(t, handler) ==
    /\ tasks[t]["pc"] \notin EndedAt
    /\ batches' = IF handler = "batch_update_raises" THEN batches
                  ELSE update_batch_error(batches, tasks[t]["batch_id"])
    /\ kernel_status' = IF handler = "handled" THEN "error" ELSE kernel_status
    /\ tasks' = TaskAt(t, IF handler = "handled" THEN "failed" ELSE "died")
    /\ build_response' = NoBuildResponse
    /\ last_build' = NoBuild
    /\ UNCHANGED <<ingest_vars, query_vars, chunker_vars, composer_vars, store_vars,
                   retriever_vars, gate_vars, graph_vars>>

\* the ways the except branch ends
Handlers == {"handled", "batch_update_raises", "status_update_raises"}

\* POST /chat for the kernel kernel_id: 404 without the kernel, 400 unless its status
\* is 'ready', 500 when contradictions[0] fails on an empty list, else the answer on
\* the first of the five tensions read
chat(kernel_id, status, cs) ==
    IF kernel_id # "k1" THEN [status |-> 404, retrieved_contradictions |-> 0]
    ELSE IF status # "ready" THEN [status |-> 400, retrieved_contradictions |-> 0]
    ELSE IF cs = <<>> THEN [status |-> 500, retrieved_contradictions |-> 0]
    ELSE [status |-> 200, retrieved_contradictions |-> Len(cs)]

ChatLimit == 5

\* a POST /chat that keeps the answered exchange as a deep memory of the kernel
ChatRemembering(kernel_id) ==
    /\ \E cs \in get_contradictions(contradictions, ChatLimit) :
         /\ chat_response' = chat(kernel_id, kernel_status, cs)
         /\ deep_memories' =
               IF chat(kernel_id, kernel_status, cs)["status"] = 200
               THEN Append(deep_memories,
                           [source_label |-> "chat", text |-> <<0, 0>>, embedding |-> <<0>>])
               ELSE deep_memories
    /\ UNCHANGED <<query_result, subgraph, sources, ingest>>
    /\ UNCHANGED <<store_vars, retriever_vars, gate_vars, graph_vars, build_vars,
                   chunker_vars, composer_vars>>

Chat(kernel_id) ==
    /\ \E cs \in get_contradictions(contradictions, ChatLimit) :
         chat_response' = chat(kernel_id, kernel_status, cs)
    /\ UNCHANGED <<query_result, subgraph, ingest_vars>>
    /\ UNCHANGED <<store_vars, retriever_vars, gate_vars, graph_vars, build_vars,
                   chunker_vars, composer_vars>>

\* retrieve_by_poles: of the 1000 rows read, those whose lowercased poles are the
\* two lowercased arguments, in either order
retrieve_by_poles(all_contras, pole_a, pole_b) ==
    SelectSeq(all_contras,
              LAMBDA c : \/ /\ Lower(c["pole_a"]) = Lower(pole_a)
                            /\ Lower(c["pole_b"]) = Lower(pole_b)
                         \/ /\ Lower(c["pole_a"]) = Lower(pole_b)
                            /\ Lower(c["pole_b"]) = Lower(pole_a))

\* get_mask_context: of the 500 rows read, those whose mask_inner or mask_outer is
\* mask_type; c.get gives None for a key the row read does not have
get_mask_context(all_contras, mask_type) ==
    SelectSeq(all_contras,
              LAMBDA c : \/ Get(c, "mask_inner", None) = mask_type
                         \/ Get(c, "mask_outer", None) = mask_type)

\* the ends of a read-only call: its list returned, or the store's read raising
QueryEnds == {"returned", "raised"}

\* HybridRetriever.retrieve_by_poles(kernel_id, pole_a, pole_b)
RetrieveByPoles(pole_a, pole_b) ==
    /\ \E all_contras \in get_contradictions(contradictions, 1000), end \in QueryEnds :
         query_result' =
            [op |-> "retrieve_by_poles", end |-> end,
             rows |-> IF end = "raised" THEN <<>>
                      ELSE retrieve_by_poles(all_contras, pole_a, pole_b)]
    /\ UNCHANGED <<chat_response, subgraph, ingest_vars>>
    /\ UNCHANGED <<store_vars, retriever_vars, gate_vars, graph_vars, build_vars,
                   chunker_vars, composer_vars>>

\* HybridRetriever.get_mask_context(kernel_id, mask_type)
GetMaskContext(mask_type) ==
    /\ \E all_contras \in get_contradictions(contradictions, 500), end \in QueryEnds :
         query_result' =
            [op |-> "get_mask_context", end |-> end,
             rows |-> IF end = "raised" THEN <<>>
                      ELSE get_mask_context(all_contras, mask_type)]
    /\ UNCHANGED <<chat_response, subgraph, ingest_vars>>
    /\ UNCHANGED <<store_vars, retriever_vars, gate_vars, graph_vars, build_vars,
                   chunker_vars, composer_vars>>

\* the mask types of the design that the sample tensions carry, and no mask
MaskTypes == {"Desire", "Control", None}

(***************************************************************************)
(* IngestPipeline (ingest.py)                                              *)
(***************************************************************************)
\* get_sources: ORDER BY created_at DESC, the newest row first
get_sources(rows) == [i \in DOMAIN rows |-> rows[Len(rows) + 1 - i]]

\* the sources run works on: those of source_ids when the list is given and not
\* empty, else all of them
SelectSources(rows, source_ids) ==
    IF source_ids # <<>>
    THEN SelectSeq(get_sources(rows), LAMBDA s : s["id"] \in Range(source_ids))
    ELSE get_sources(rows)

\* update_source_status(source_id, status)
update_source_status(rows, source_id, status) ==
    [i \in DOMAIN rows |->
        IF rows[i]["id"] = source_id THEN [rows[i] EXCEPT !["parse_status"] = status]
        ELSE rows[i]]

\* update_batch(batch_id, status, step) with a step dict: status and the whole
\* step column are overwritten
update_batch_step(rows, batch_id, status, step) ==
    [i \in DOMAIN rows |->
        IF i = batch_id THEN [status |-> status, step |-> step] ELSE rows[i]]

\* _parse_source: the chunks of the source's text with their metadata, none when
\* the parser extracts no text; a chunk's text is named by source and position
parse_source(source) ==
    [i \in 1..source["chunks"] |->
        [text |-> <<source["id"], i>>, source_id |-> source["id"],
         source_label |-> source["storage_path"], chunk_index |-> i - 1,
         total_chunks |-> source["chunks"]]]

\* int(10 + (30 * (i + 1) / len(sources))) for the loop index i from 0
ParseProgress(i, n) == 10 + (30 * (i + 1)) \div n

\* an embedder that embeds the first text of a batch only
embed_batch_first(texts) == [i \in 1..Min(1, Len(texts)) |-> <<i>>]

\* Embedder.embed_batch: [] for no text, else one embedding for each text
embed_batch(texts) == [i \in DOMAIN texts |-> <<i>>]

\* _embed_chunks(chunks)
embed_chunks(all_chunks) == embed_batch([i \in DOMAIN all_chunks |-> all_chunks[i]["text"]])

\* zip(chunks, embeddings) ends with the shorter list
ZipLen(all_chunks, embeddings) == Min(Len(all_chunks), Len(embeddings))

\* the positions of a run that has not ended
Running == {"called", "parsing", "parsed", "embedding", "embedded", "storing"}

\* pipeline.run(kernel_id, batch_id, source_ids) is called
IngestCall(batch_id, source_ids) ==
    /\ ingest["pc"] = "idle"
    /\ ingest' = [NoIngest EXCEPT !["pc"] = "called", !["batch_id"] = batch_id,
                                  !["sources"] = source_ids]
    /\ UNCHANGED <<sources, deep_memories, query_vars>>
    /\ UNCHANGED <<store_vars, retriever_vars, gate_vars, graph_vars, build_vars,
                   chunker_vars, composer_vars>>

\* a run whose except branch ends without raising the exception again
ExceptSwallowing(message, handler) ==
    /\ batches' = IF handler = "handled"
                  THEN update_batch_step(batches, ingest["batch_id"], "error",
                                         [error |-> message])
                  ELSE batches
    /\ ingest' = [ingest EXCEPT !["pc"] = "returned", !["handler"] = handler,
                                !["result"] = [success |-> FALSE]]

\* the except branch for the exception of message message: update_batch 'error'
\* with the message, unless the store raises in this call too, and the exception
\* goes on to the caller
Except(message, handler) ==
    /\ batches' = IF handler = "handled"
                  THEN update_batch_step(batches, ingest["batch_id"], "error",
                                         [error |-> message])
                  ELSE batches
    /\ ingest' = [ingest EXCEPT !["pc"] = "raised", !["raised"] = message,
                                !["handler"] = handler]

\* the sources are read; without a source ValueError is raised, else 'parsing' is
\* written with progress 10
IngestGetSources ==
    /\ ingest["pc"] = "called"
    /\ LET found == SelectSources(sources, ingest["sources"])
       IN  IF found = <<>>
           THEN /\ \E handler \in {"handled", "batch_update_raises"} :
                      Except("No sources found to ingest", handler)
                /\ UNCHANGED sources
           ELSE /\ batches' = update_batch_step(batches, ingest["batch_id"], "parsing",
                                  [step |-> "parse", progress |-> 10,
                                   total_sources |-> Len(found)])
                /\ ingest' = [ingest EXCEPT !["pc"] = "parsing", !["sources"] = found]
                /\ UNCHANGED sources
    /\ UNCHANGED <<deep_memories, query_vars>>
    /\ UNCHANGED <<store_vars, retriever_vars, gate_vars, graph_vars, kernel_status,
                   tasks, build_response, last_build, chunker_vars, composer_vars>>

\* one round of the for loop over the sources
IngestParse ==
    /\ ingest["pc"] = "parsing"
    /\ LET i == ingest["i"]
           n == Len(ingest["sources"])
           source == ingest["sources"][i + 1]
       IN  /\ sources' = update_source_status(sources, source["id"], "parsed")
           /\ batches' = update_batch_step(batches, ingest["batch_id"], "parsing",
                             [step |-> "parse", progress |-> ParseProgress(i, n),
                              parsed |-> i + 1, total |-> n])
           /\ ingest' = [ingest EXCEPT
                            !["all_chunks"] = @ \o parse_source(source),
                            !["i"] = i + 1,
                            !["pc"] = IF i + 1 = n THEN "parsed" ELSE "parsing"]
    /\ UNCHANGED <<deep_memories, query_vars>>
    /\ UNCHANGED <<store_vars, retriever_vars, gate_vars, graph_vars, kernel_status,
                   tasks, build_response, last_build, chunker_vars, composer_vars>>

\* 'embedding' is written with progress 40
IngestEmbedStart ==
    /\ ingest["pc"] = "parsed"
    /\ batches' = update_batch_step(batches, ingest["batch_id"], "embedding",
                      [step |-> "embed", progress |-> 40,
                       chunks |-> Len(ingest["all_chunks"])])
    /\ ingest' = [ingest EXCEPT !["pc"] = "embedding"]
    /\ UNCHANGED <<sources, deep_memories, query_vars>>
    /\ UNCHANGED <<store_vars, retriever_vars, gate_vars, graph_vars, kernel_status,
                   tasks, build_response, last_build, chunker_vars, composer_vars>>

\* the chunks are embedded and progress 60 is written
IngestEmbed ==
    /\ ingest["pc"] = "embedding"
    /\ LET embeddings == embed_chunks(ingest["all_chunks"])
       IN  /\ batches' = update_batch_step(batches, ingest["batch_id"], "embedding",
                             [step |-> "embed", progress |-> 60,
                              embedded |-> Len(embeddings)])
           /\ ingest' = [ingest EXCEPT !["pc"] = "embedded", !["embeddings"] = embeddings]
    /\ UNCHANGED <<sources, deep_memories, query_vars>>
    /\ UNCHANGED <<store_vars, retriever_vars, gate_vars, graph_vars, kernel_status,
                   tasks, build_response, last_build, chunker_vars, composer_vars>>

\* 'storing' is written with progress 70
IngestStoreStart ==
    /\ ingest["pc"] = "embedded"
    /\ batches' = update_batch_step(batches, ingest["batch_id"], "storing",
                      [step |-> "store", progress |-> 70])
    /\ ingest' = [ingest EXCEPT !["pc"] = "storing"]
    /\ UNCHANGED <<sources, deep_memories, query_vars>>
    /\ UNCHANGED <<store_vars, retriever_vars, gate_vars, graph_vars, kernel_status,
                   tasks, build_response, last_build, chunker_vars, composer_vars>>

\* one round of _store_memories: save_deep_memory of the next chunk and embedding
IngestStore ==
    /\ ingest["pc"] = "storing"
    /\ ingest["stored_count"] < ZipLen(ingest["all_chunks"], ingest["embeddings"])
    /\ LET k == ingest["stored_count"] + 1
           chunk == ingest["all_chunks"][k]
       IN  deep_memories' =
              Append(deep_memories,
                     [source_label |-> chunk["source_label"], text |-> chunk["text"],
                      embedding |-> ingest["embeddings"][k]])
    /\ ingest' = [ingest EXCEPT !["stored_count"] = @ + 1]
    /\ UNCHANGED <<sources, query_vars>>
    /\ UNCHANGED <<store_vars, retriever_vars, gate_vars, graph_vars, build_vars,
                   chunker_vars, composer_vars>>

\* _store_memories returns: 'done' is written with the counts, and run returns
IngestDone ==
    /\ ingest["pc"] = "storing"
    /\ ingest["stored_count"] = ZipLen(ingest["all_chunks"], ingest["embeddings"])
    /\ batches' = update_batch_step(batches, ingest["batch_id"], "done",
                      [step |-> "complete", progress |-> 100,
                       sources_processed |-> Len(ingest["sources"]),
                       chunks_created |-> Len(ingest["all_chunks"]),
                       memories_stored |-> ingest["stored_count"]])
    /\ ingest' = [ingest EXCEPT
                     !["pc"] = "returned",
                     !["result"] = [success |-> TRUE,
                                    sources_processed |-> Len(ingest["sources"]),
                                    chunks |-> Len(ingest["all_chunks"]),
                                    memories |-> ingest["stored_count"]]]
    /\ UNCHANGED <<sources, deep_memories, query_vars>>
    /\ UNCHANGED <<store_vars, retriever_vars, gate_vars, graph_vars, kernel_status,
                   tasks, build_response, last_build, chunker_vars, composer_vars>>

\* the collaborator called next at a position of the run raises: the embedder while
\* embedding, else the store
FailureAt(pc) == IF pc = "embedding" THEN "embedder failed" ELSE "store failed"

\* a collaborator raises in the next call of the run, and the except branch runs
IngestFail(handler) ==
    /\ ingest["pc"] \in Running
    /\ Except(FailureAt(ingest["pc"]), handler)
    /\ UNCHANGED <<sources, deep_memories, query_vars>>
    /\ UNCHANGED <<store_vars, retriever_vars, gate_vars, graph_vars, kernel_status,
                   tasks, build_response, last_build, chunker_vars, composer_vars>>

(***************************************************************************)
(* Chunker (parser.py)                                                     *)
(***************************************************************************)
\* str.split() without argument: the maximal runs of non-whitespace characters, in
\* order; cur is the word being read, acc the words already closed
RECURSIVE SplitFrom(_, _, _)
SplitFrom(s, cur, acc) ==
    IF s = <<>>
    THEN IF cur = <<>> THEN acc ELSE Append(acc, cur)
    ELSE IF IsSpace(Head(s))
         THEN SplitFrom(Tail(s), <<>>, IF cur = <<>> THEN acc ELSE Append(acc, cur))
         ELSE SplitFrom(Tail(s), Append(cur, Head(s)), acc)

\* str.split(" "): a word ends at every single space, so a run of spaces or a leading
\* space gives empty words, and other whitespace stays inside the words
RECURSIVE SplitAtSpacesFrom(_, _, _)
SplitAtSpacesFrom(s, cur, acc) ==
    IF s = <<>>
    THEN Append(acc, cur)
    ELSE IF Head(s) = 32
         THEN SplitAtSpacesFrom(Tail(s), <<>>, Append(acc, cur))
         ELSE SplitAtSpacesFrom(Tail(s), Append(cur, Head(s)), acc)

SplitAtSpaces(s) == SplitAtSpacesFrom(s, <<>>, <<>>)

Split(s) == SplitFrom(s, <<>>, <<>>)

\* sep.join(ws)
RECURSIVE Join(_, _)
Join(sep, ws) ==
    IF ws = <<>> THEN <<>>
    ELSE IF Len(ws) = 1 THEN ws[1]
    ELSE ws[1] \o sep \o Join(sep, Tail(ws))

\* seq[lo:hi] of Python: a negative index counts from the end, and every index is
\* clamped to the list
SliceIndex(n, k) == IF k < 0 THEN Max(0, k + n) ELSE Min(k, n)

PySlice(seq, lo, hi) ==
    SubSeq(seq, SliceIndex(Len(seq), lo) + 1, SliceIndex(Len(seq), hi))

\* the window start moved by the overlap alone
NextStartLapOnly(start, size, lap) == start + lap

\* the window start moved by the whole window
NextStartWholeWindow(start, size, lap) == start + size

\* i += self.chunk_size - self.overlap
NextStart(start, size, lap) == start + size - lap

\* the characters of the texts: two letters, the space and the newline
TextChars == {97, 98, 32, 10}

Texts == UNION {[1..n -> TextChars] : n \in 0..MaxTextLen}

ChunkSizes == 1..3

Overlaps == 0..3

\* Chunker.chunk_text up to the first test of the loop
ChunkTextCall ==
    /\ chunk_pc = "idle"
    /\ words' = Split(text)
    /\ chunks' = <<>>
    /\ chunk_i' = 0
    /\ chunk_pc' = "while"
    /\ UNCHANGED <<chunk_size, overlap, text>>
    /\ UNCHANGED <<ingest_vars, query_vars, store_vars, retriever_vars, gate_vars, graph_vars, build_vars,
                   composer_vars>>

\* one pass of the loop body: the test holds, a chunk is appended, i moves, and the
\* call returns through the break once i has left the list
ChunkLoop ==
    /\ chunk_pc = "while"
    /\ chunk_i < Len(words)
    /\ Len(chunks) < MaxChunks
    /\ chunks' = Append(chunks, Join(<<32>>, PySlice(words, chunk_i, chunk_i + chunk_size)))
    /\ chunk_i' = NextStart(chunk_i, chunk_size, overlap)
    /\ chunk_pc' = IF chunk_i' >= Len(words) THEN "returned" ELSE "while"
    /\ UNCHANGED <<chunk_size, overlap, text, words>>
    /\ UNCHANGED <<ingest_vars, query_vars, store_vars, retriever_vars, gate_vars, graph_vars, build_vars,
                   composer_vars>>

\* the loop test fails: return chunks
ChunkReturn ==
    /\ chunk_pc = "while"
    /\ ~(chunk_i < Len(words))
    /\ chunk_pc' = "returned"
    /\ UNCHANGED <<chunk_size, overlap, text, words, chunks, chunk_i>>
    /\ UNCHANGED <<ingest_vars, query_vars, store_vars, retriever_vars, gate_vars, graph_vars, build_vars,
                   composer_vars>>

(***************************************************************************)
(* LLM (llm.py) and ResponseComposer (composer.py)                         *)
(***************************************************************************)
\* "Error: "
ErrorPrefix == <<69, 114, 114, 111, 114, 58, 32>>

\* a string of n copies of the character ch
Repeat(ch, n) == [k \in 1..n |-> ch]

\* the outcomes of client.chat.completions.create: a message content, a message
\* without content, or an exception with the text str(e)
Content(t) == [kind |-> "content", text |-> t]

NoContent == [kind |-> "none", text |-> <<>>]

Raises(t) == [kind |-> "raises", text |-> t]

\* LLM.generate: the content of the first choice, which may be None, or "Error: "
\* and str(e) when the client raises; generate_with_context hands its result on
generate(outcome) ==
    IF outcome.kind = "raises"
    THEN [is_none |-> FALSE, value |-> ErrorPrefix \o outcome.text]
    ELSE IF outcome.kind = "none" THEN [is_none |-> TRUE, value |-> <<>>]
    ELSE [is_none |-> FALSE, value |-> outcome.text]

\* ResponseComposer.compose for one voice list: it raises when the response is None
\* and _detect_masks calls lower() on it; masks_used and context_length of the
\* result, which depend on the prompt texts, are left out
compose(outcome, cs, voice_priority) ==
    LET response == generate(outcome)
    IN  [raised |-> response.is_none,
         response |-> response.value,
         voice_mode |-> voice_priority[1],
         contradictions_referenced |-> Len(cs)]

\* len(result['response']) > 50
SubstantiveLen == 50

\* "I find I cannot speak clearly on this matter."
FallbackText ==
    <<73, 32, 102, 105, 110, 100, 32, 73, 32, 99, 97, 110, 110, 111, 116, 32, 115,
      112, 101, 97, 107, 32, 99, 108, 101, 97, 114, 108, 121, 32, 111, 110, 32, 116,
      104, 105, 115, 32, 109, 97, 116, 116, 101, 114, 46>>

\* the basic response returned when no voice gave a substantive one
FallbackResponse ==
    [response |-> FallbackText, voice_mode |-> "edict", contradictions_referenced |-> 0]

DefaultVoices == <<"aphorism", "counsel", "edict">>

NoComposeResult == [response |-> None, voice_mode |-> None, contradictions_referenced |-> 0]

\* error messages shorter and longer than the length test lets through
ErrorTexts ==
    {Repeat(120, n) : n \in {0, SubstantiveLen - Len(ErrorPrefix),
                             SubstantiveLen - Len(ErrorPrefix) + 1, MaxErrorLen}}

\* contents up to, and above, the length test
ContentTexts == {Repeat(97, n) : n \in {10, SubstantiveLen, SubstantiveLen + 1}}

Outcomes ==
    {Content(t) : t \in ContentTexts} \cup {NoContent} \cup {Raises(t) : t \in ErrorTexts}

\* voice_priority: not given, one voice, two voices
VoicePriorities == {<<>>, <<"edict">>, <<"counsel", "aphorism">>}

ComposeContradictions == {<<>>} \cup {<<c>> : c \in BuildData}

\* compose_with_voice_fallback up to the for loop
ComposeCall ==
    /\ compose_pc = "idle"
    /\ voices' = IF compose_args.voice_priority = <<>>
                 THEN DefaultVoices ELSE compose_args.voice_priority
    /\ voice_at' = 1
    /\ compose_pc' = "for"
    /\ UNCHANGED <<llm_outcomes, compose_args, llm_calls, compose_result>>
    /\ UNCHANGED <<ingest_vars, query_vars, store_vars, retriever_vars, gate_vars, graph_vars, build_vars,
                   chunker_vars>>

\* one pass of the for loop: compose with the one voice; a response of more than 50
\* characters is returned with the voice, any other and any exception go on to the
\* next voice
ComposeVoice ==
    /\ compose_pc = "for"
    /\ voice_at <= Len(voices)
    /\ LET voice == voices[voice_at]
           result == compose(llm_outcomes[llm_calls + 1],
                             compose_args.contradictions, <<voice>>)
       IN  /\ llm_calls' = llm_calls + 1
           /\ IF ~result.raised /\ Len(result.response) > SubstantiveLen
              THEN /\ compose_result' =
                        [response |-> result.response,
                         voice_mode |-> voice,
                         contradictions_referenced |-> result.contradictions_referenced]
                   /\ compose_pc' = "returned"
                   /\ UNCHANGED voice_at
              ELSE /\ voice_at' = voice_at + 1
                   /\ UNCHANGED <<compose_result, compose_pc>>
    /\ UNCHANGED <<llm_outcomes, compose_args, voices>>
    /\ UNCHANGED <<ingest_vars, query_vars, store_vars, retriever_vars, gate_vars, graph_vars, build_vars,
                   chunker_vars>>

\* the voices are used up: the basic response
ComposeFallback ==
    /\ compose_pc = "for"
    /\ voice_at > Len(voices)
    /\ compose_result' = FallbackResponse
    /\ compose_pc' = "returned"
    /\ UNCHANGED <<llm_outcomes, compose_args, voices, voice_at, llm_calls>>
    /\ UNCHANGED <<ingest_vars, query_vars, store_vars, retriever_vars, gate_vars, graph_vars, build_vars,
                   chunker_vars>>

(***************************************************************************)
(* GraphBuilder.get_subgraph (graph.py) over store.get_graph_edges         *)
(***************************************************************************)
\* get_graph_edges: the kernel's rows ORDER BY frequency DESC; SQL leaves the order
\* of rows of equal frequency open
get_graph_edges(rows) ==
    {[i \in DOMAIN p |-> rows[p[i]]] :
        p \in {o \in Orders(DOMAIN rows) :
                 \A i, j \in DOMAIN o :
                    i < j => rows[o[i]]["frequency"] >= rows[o[j]]["frequency"]}}

\* the poles met when the edges are followed one after the other, each pole found
\* being followed at once
RECURSIVE HopChained(_, _)
HopChained(all_edges, connected) ==
    IF all_edges = <<>> THEN connected
    ELSE LET edge == Head(all_edges)
             found == (IF edge["pole_a"] \in connected THEN {edge["pole_b"]} ELSE {})
                      \cup (IF edge["pole_b"] \in connected THEN {edge["pole_a"]} ELSE {})
         IN  HopChained(Tail(all_edges), connected \cup found)

\* one pass of the depth loop: new_poles is collected from the poles connected
\* before the pass, then added
Hop(all_edges, connected) ==
    connected
    \cup {all_edges[i]["pole_b"] : i \in {j \in DOMAIN all_edges : all_edges[j]["pole_a"] \in connected}}
    \cup {all_edges[i]["pole_a"] : i \in {j \in DOMAIN all_edges : all_edges[j]["pole_b"] \in connected}}

\* for _ in range(depth)
RECURSIVE Connected(_, _, _)
Connected(all_edges, connected, depth) ==
    IF depth <= 0 THEN connected
    ELSE Connected(all_edges, Hop(all_edges, connected), depth - 1)

\* subgraph_edges: the edges with both poles connected, in the order of all_edges
RECURSIVE SubgraphEdges(_, _)
SubgraphEdges(all_edges, connected) ==
    IF all_edges = <<>> THEN <<>>
    ELSE IF Head(all_edges)["pole_a"] \in connected /\ Head(all_edges)["pole_b"] \in connected
         THEN <<Head(all_edges)>> \o SubgraphEdges(Tail(all_edges), connected)
         ELSE SubgraphEdges(Tail(all_edges), connected)

\* get_subgraph on the edges read; nodes is a list built from a set, in no order
\* the code fixes, and is kept as the set of its dicts
get_subgraph(all_edges, central_pole, depth) ==
    LET connected == Connected(all_edges, {central_pole}, depth)
    IN  [nodes |-> {[id |-> pole, label |-> pole] : pole \in connected},
         edges |-> SubgraphEdges(all_edges, connected),
         central |-> central_pole,
         depth |-> depth]

\* stored edge rows: a chain duty - desire - reason - emotion, an edge from duty to
\* duty, and an edge apart from the others
StoredEdges ==
    { EdgeRow(desire, duty, 2, Frac(0, 1), 135, TRUE),
      EdgeRow(desire, reason, 1, Frac(1, 1), 40, FALSE),
      EdgeRow(emotion, reason, 1, Frac(-1, 1), 91, TRUE),
      EdgeRow(duty, duty, 1, Frac(0, 1), 10, FALSE),
      EdgeRow(private, public, 1, Frac(0, 1), 72, FALSE) }

StoredEdgeLists == UNION {[1..n -> StoredEdges] : n \in 0..MaxSubgraphEdges}

\* central poles: with edges, and one no edge has
CentralPoles == {duty, emotion, unknown}

NoSubgraph == [called |-> FALSE, nodes |-> {}, edges |-> <<>>, central |-> <<>>, depth |-> 0]

\* GraphBuilder.get_subgraph(kernel_id, central_pole, depth)
GetSubgraph(central_pole, depth) ==
    /\ \E all_edges \in get_graph_edges(graph_edges) :
         LET result == get_subgraph(all_edges, central_pole, depth)
         IN  subgraph' = [called |-> TRUE, nodes |-> result["nodes"],
                          edges |-> result["edges"], central |-> result["central"],
                          depth |-> result["depth"]]
    /\ UNCHANGED <<chat_response, query_result, ingest_vars>>
    /\ UNCHANGED <<store_vars, retriever_vars, gate_vars, graph_vars, build_vars,
                   chunker_vars, composer_vars>>

(***************************************************************************)
(* Specifications                                                          *)
(***************************************************************************)
InitStore ==
    /\ contradictions = <<>>
    /\ graph_edges = <<>>

InitRetriever ==
    /\ weights \in {RetrieverInit(w) : w \in WeightArgs}
    /\ score_args = <<>>
    /\ score_result = <<>>
    /\ retrieved = NoRetrieval

\* a gate of default strictness that has not been called
InitGateIdle ==
    /\ strictness = 80
    /\ gate_query = <<>>
    /\ gate_contradictions = <<>>
    /\ gate_result = NoGateResult

\* no aggregation called directly
InitGraphIdle ==
    /\ agg_args = <<>>
    /\ agg_result = NoAggregate

\* a kernel that exists and was never built
InitBuild ==
    /\ kernel_status = "draft"
    /\ batches = <<>>
    /\ tasks = <<>>
    /\ build_response = NoBuildResponse
    /\ last_build = NoBuild

\* the chunker of IngestPipeline, not called
InitChunkerIdle ==
    /\ chunk_size = 500
    /\ overlap = 50
    /\ text = <<>>
    /\ words = <<>>
    /\ chunks = <<>>
    /\ chunk_i = 0
    /\ chunk_pc = "idle"

\* no source uploaded, nothing ingested
InitIngestIdle ==
    /\ sources = <<>>
    /\ deep_memories = <<>>
    /\ ingest = NoIngest

\* no chat, no pole or mask query, no subgraph asked for
InitQueryIdle ==
    /\ chat_response = NoChat
    /\ query_result = NoQuery
    /\ subgraph = NoSubgraph

\* a composer that has not been called
InitComposerIdle ==
    /\ llm_outcomes = <<>>
    /\ compose_args = [voice_priority |-> <<>>, contradictions |-> <<>>]
    /\ voices = <<>>
    /\ voice_at = 1
    /\ llm_calls = 0
    /\ compose_result = NoComposeResult
    /\ compose_pc = "idle"

Init ==
    /\ InitStore
    /\ InitRetriever
    /\ InitGateIdle
    /\ InitGraphIdle
    /\ InitBuild
    /\ InitIngestIdle
    /\ InitQueryIdle
    /\ InitChunkerIdle
    /\ InitComposerIdle

\* a retriever constructed without weights, or with the first custom dict
InitRetrieve ==
    /\ InitStore
    /\ InitRetriever
    /\ InitGateIdle
    /\ InitGraphIdle
    /\ InitBuild
    /\ InitIngestIdle
    /\ InitQueryIdle
    /\ InitComposerIdle
    /\ InitChunkerIdle
    /\ weights \in {RetrieverInit(<<>>), RetrieverInit(CustomWeights)}

\* _score_contradictions as a function of its arguments
NextScoreFn == \E cs \in ScoreArgLists : ScoreCall(cs)

SpecScoreFn == Init /\ [][NextScoreFn]_vars

\* the store and the retriever over it
SaveRetrievalData == \E data \in RetrievalData : SaveContradiction(data)

RetrieveAny == \E q \in QueryEmbeddings, top_k \in TopKs : Retrieve(q, top_k)

NextRetrieve == SaveRetrievalData \/ RetrieveAny

SpecRetrieve == InitRetrieve /\ [][NextRetrieve]_vars

\* CLEARGate.evaluate as a function of the gate's strictness and its arguments
InitGate ==
    /\ InitStore
    /\ weights = DefaultWeights
    /\ score_args = <<>>
    /\ score_result = <<>>
    /\ retrieved = NoRetrieval
    /\ strictness \in Strictnesses
    /\ gate_query \in GateQueries
    /\ gate_contradictions \in GateLists
    /\ gate_result = NoGateResult
    /\ InitGraphIdle
    /\ InitBuild
    /\ InitIngestIdle
    /\ InitQueryIdle
    /\ InitComposerIdle
    /\ InitChunkerIdle

NextGate == Evaluate

SpecGate == InitGate /\ [][NextGate]_vars

\* _aggregate_contradictions, _build_nodes and _build_edges as functions of the list
InitAggregate ==
    /\ InitStore
    /\ InitGateIdle
    /\ InitBuild
    /\ InitIngestIdle
    /\ InitQueryIdle
    /\ InitComposerIdle
    /\ InitChunkerIdle
    /\ weights = DefaultWeights
    /\ score_args = <<>>
    /\ score_result = <<>>
    /\ retrieved = NoRetrieval
    /\ agg_args \in AggLists
    /\ agg_result = NoAggregate

NextAggregate == AggregateCall

SpecAggregate == InitAggregate /\ [][NextAggregate]_vars

\* the store, the graph builder and the build pipeline of one kernel
SaveBuildData ==
    /\ Len(contradictions) < MaxSaved
    /\ \E data \in BuildData : SaveContradiction(data)

BuildKernelAny ==
    /\ Len(tasks) < MaxBuilds
    /\ \E kernel_id \in KernelIds, batch_id \in 0..Len(batches) :
         BuildKernel(kernel_id, batch_id)

PipelineStep ==
    \E t \in DOMAIN tasks :
        \/ PipelineParse(t)
        \/ PipelineEmbed(t)
        \/ PipelineExtract(t)
        \/ PipelineCluster(t)
        \/ PipelineGraphing(t)
        \/ PipelineGraph(t)

NextBuild == SaveBuildData \/ BuildKernelAny \/ PipelineStep \/ BuildGraph

\* a retriever of default weights beside the store and the pipeline
InitKernel == Init /\ weights = DefaultWeights

SpecBuild == InitKernel /\ [][NextBuild]_vars

\* pipelines of several POST /build requests in the one event loop, and build_graph
BuildKernelAgain ==
    /\ Len(tasks) < MaxConcurrent
    /\ \E kernel_id \in KernelIds, batch_id \in 0..Len(batches) :
         BuildKernel(kernel_id, batch_id)

NextConcurrent == BuildKernelAgain \/ PipelineStep \/ BuildGraph

SpecConcurrent == InitKernel /\ [][NextConcurrent]_vars

\* a Chunker constructed with any sizes, and one chunk_text call on any text
InitChunk ==
    /\ InitStore
    /\ InitGateIdle
    /\ InitGraphIdle
    /\ InitBuild
    /\ InitIngestIdle
    /\ InitQueryIdle
    /\ InitComposerIdle
    /\ weights = DefaultWeights
    /\ score_args = <<>>
    /\ score_result = <<>>
    /\ retrieved = NoRetrieval
    /\ chunk_size \in ChunkSizes
    /\ overlap \in Overlaps
    /\ text \in Texts
    /\ words = <<>>
    /\ chunks = <<>>
    /\ chunk_i = 0
    /\ chunk_pc = "idle"

NextChunk == ChunkTextCall \/ ChunkLoop \/ ChunkReturn

SpecChunk == InitChunk /\ [][NextChunk]_vars

\* the interpreter runs a call that was started on to its next step
SpecChunkLive == InitChunk /\ [][NextChunk]_vars /\ WF_vars(NextChunk)

\* one compose_with_voice_fallback call, over every behaviour of the LLM client on
\* the calls the voices lead to
InitCompose ==
    /\ InitStore
    /\ InitGateIdle
    /\ InitGraphIdle
    /\ InitBuild
    /\ InitIngestIdle
    /\ InitQueryIdle
    /\ InitChunkerIdle
    /\ weights = DefaultWeights
    /\ score_args = <<>>
    /\ score_result = <<>>
    /\ retrieved = NoRetrieval
    /\ llm_outcomes \in [1..Len(DefaultVoices) -> Outcomes]
    /\ compose_args \in [voice_priority : VoicePriorities,
                         contradictions : ComposeContradictions]
    /\ voices = <<>>
    /\ voice_at = 1
    /\ llm_calls = 0
    /\ compose_result = NoComposeResult
    /\ compose_pc = "idle"

NextCompose == ComposeCall \/ ComposeVoice \/ ComposeFallback

SpecCompose == InitCompose /\ [][NextCompose]_vars

\* get_subgraph over a table of stored edges
InitSubgraph ==
    /\ contradictions = <<>>
    /\ graph_edges \in StoredEdgeLists
    /\ InitGateIdle
    /\ InitGraphIdle
    /\ InitBuild
    /\ InitIngestIdle
    /\ InitQueryIdle
    /\ InitChunkerIdle
    /\ InitComposerIdle
    /\ weights = DefaultWeights
    /\ score_args = <<>>
    /\ score_result = <<>>
    /\ retrieved = NoRetrieval

NextSubgraph == \E central_pole \in CentralPoles, depth \in 0..MaxDepth :
                    GetSubgraph(central_pole, depth)

SpecSubgraph == InitSubgraph /\ [][NextSubgraph]_vars

\* builds of one kernel with any batch id the client sends, store failures in the
\* pipelines, and chats
BuildRequest ==
    /\ Len(tasks) < MaxConcurrent
    /\ \E kernel_id \in KernelIds,
          batch_id \in 0..Len(batches) \cup {Len(batches) + MaxConcurrent + 1} :
         BuildKernel(kernel_id, batch_id)

PipelineFailure == \E t \in DOMAIN tasks, handler \in Handlers : PipelineFail(t, handler)

ChatAny == \E kernel_id \in KernelIds : Chat(kernel_id)

NextLifecycle == BuildRequest \/ PipelineStep \/ PipelineFailure \/ ChatAny

SpecLifecycle == InitKernel /\ [][NextLifecycle]_vars

\* the query-time operations beside saves and a build of the kernel: the gate is
\* handed the query "Duty" and one refusal tension, or no tension
InitQuery ==
    /\ InitStore
    /\ weights = DefaultWeights
    /\ score_args = <<>>
    /\ score_result = <<>>
    /\ retrieved = NoRetrieval
    /\ strictness = 80
    /\ gate_query = <<68>> \o Tail(duty)
    /\ gate_contradictions \in {<<>>} \cup {<<c>> : c \in {d \in GateDicts : d["id"] = 1}}
    /\ gate_result = NoGateResult
    /\ InitGraphIdle
    /\ InitBuild
    /\ InitIngestIdle
    /\ InitQueryIdle
    /\ InitComposerIdle
    /\ InitChunkerIdle

\* saves of the refusal tensions of the retrieval data, with and without embedding
SaveQueryData ==
    /\ Len(contradictions) < MaxQuerySaved
    /\ \E data \in {d \in RetrievalData : d["refusal"]} : SaveContradiction(data)

\* "Duty"/"desire", "desire"/"duty" and a pair no tension has
PoleArgs ==
    { << <<68>> \o Tail(duty), desire >>, <<desire, duty>>, <<public, unknown>> }

RetrieveByPolesAny == \E p \in PoleArgs : RetrieveByPoles(p[1], p[2])

GetMaskContextAny == \E mask_type \in MaskTypes : GetMaskContext(mask_type)

QueryStep == RetrieveAny \/ RetrieveByPolesAny \/ GetMaskContextAny \/ Evaluate \/ ChatAny

\* the one build of the kernel in a behaviour
BuildQueried ==
    /\ tasks = <<>>
    /\ BuildKernel("k1", 0)

NextQuery == SaveQueryData \/ BuildQueried \/ PipelineStep \/ QueryStep

SpecQuery == InitQuery /\ [][NextQuery]_vars

\* one IngestPipeline.run call on a kernel with one queued batch and some sources
SourceTables ==
    UNION {{[i \in 1..n |->
                [id |-> i, storage_path |-> i, chunks |-> f[i], parse_status |-> None]] :
              f \in [1..n -> 0..MaxSourceChunks]} : n \in 0..MaxSources}

InitIngest ==
    /\ InitStore
    /\ InitRetriever
    /\ weights = DefaultWeights
    /\ InitGateIdle
    /\ InitGraphIdle
    /\ kernel_status = "draft"
    /\ batches = create_batch(<<>>)
    /\ tasks = <<>>
    /\ build_response = NoBuildResponse
    /\ last_build = NoBuild
    /\ sources \in SourceTables
    /\ deep_memories = <<>>
    /\ ingest = NoIngest
    /\ InitQueryIdle
    /\ InitComposerIdle
    /\ InitChunkerIdle

\* source_ids: none given (or an empty list), the first source, a source and an id
\* no source has
SourceIdArgs == { <<>>, <<1>>, <<2, 9>>, <<9>> }

IngestCallAny == \E source_ids \in SourceIdArgs : IngestCall(1, source_ids)

IngestFailure == \E handler \in {"handled", "batch_update_raises"} : IngestFail(handler)

NextIngest ==
    \/ IngestCallAny
    \/ IngestGetSources
    \/ IngestParse
    \/ IngestEmbedStart
    \/ IngestEmbed
    \/ IngestStoreStart
    \/ IngestStore
    \/ IngestDone
    \/ IngestFailure

SpecIngest == InitIngest /\ [][NextIngest]_vars

(***************************************************************************)
(* Properties of the hybrid scorer and of retrieve                         *)
(***************************************************************************)
\* the score formula of the design, over one common denominator: with distance
\* dn/dd, pair * dd/(dn+dd) + scar_phase * s * p + refusal * (1.2 | 1.0)
\* + bias * (1.1 | 1.0), every weight and decimal in hundredths
FormulaScore(d, s, p, r, c, w) ==
    Frac(w["pair"] * d[2] * 10000
           + (d[1] + d[2]) * (w["scar_phase"] * s * p
                              + w["refusal"] * (IF r THEN 120 ELSE 100) * 100
                              + w["bias"] * (IF c = "balanced" THEN 110 ELSE 100) * 100),
         1000000 * (d[1] + d[2]))

\* the position in the list seq of the dict with this id
IndexOfId(seq, id) == CHOOSE i \in DOMAIN seq : seq[i]["id"] = id

HasId(seq, id) == \E i \in DOMAIN seq : seq[i]["id"] = id

\* C1: for a tension dict carrying distance, scar_valence, life_phase_weight,
\* refusal and collapse_direction, _score_contradictions sets hybrid_score to
\* pair/(1+d) + scar_phase*s*p + refusal*(1.2 if r else 1.0)
\* + bias*(1.1 if balanced else 1.0), whatever the other weights and fields are;
\* every dict is emitted, and distance 0 gives vector_score exactly 1.
C1_HybridScoreFormula ==
    /\ Len(score_result) = Len(score_args)
    /\ \A i \in DOMAIN score_args :
         LET c == score_args[i]
         IN  ScoreKeys \subseteq DOMAIN c =>
               /\ score_result[i]["hybrid_score"] =
                    FormulaScore(c["distance"], c["scar_valence"], c["life_phase_weight"],
                                 c["refusal"], c["collapse_direction"], weights)
               /\ (c["distance"] = Frac(0, 1) => score_result[i]["vector_score"] = FOne)

C1_Witness ==
    \E i \in DOMAIN score_result :
        /\ ScoreKeys \subseteq DOMAIN score_args[i]
        /\ score_args[i]["refusal"]
        /\ score_args[i]["collapse_direction"] = "balanced"
        /\ score_args[i]["distance"] = Frac(0, 1)
        /\ score_result[i]["vector_score"] = FOne
        /\ weights = CustomWeights

\* C2: every tension retrieve returns is scored from its stored refusal flag
\* and its stored life_phase_weight (and its distance, scar_valence and
\* collapse_direction), not from a default put in place of a stored value.
C2_StoredRefusalAndPhaseScored ==
    \A i \in DOMAIN retrieved["contradictions"] :
        LET r == retrieved["contradictions"][i]
            row == contradictions[r["id"]]
        IN  r["hybrid_score"] =
              FormulaScore(r["distance"], row["scar_valence"], row["life_phase_weight"],
                           row["refusal"], row["collapse_direction"], weights)

\* C3: retrieve returns min(top_k, rows searched) tensions, each a searched
\* row; they are in descending hybrid score, equal scores in the order the
\* search returned them; and every searched row left out ranks after every
\* row returned in that order.
C3_StableDescendingTopK ==
    LET out == retrieved["contradictions"]
        found == retrieved["searched"]
        scored == retrieved["scored"]
        pos(c) == IndexOfId(found, c["id"])
        before(a, b) ==
            \/ FLess(b["hybrid_score"], a["hybrid_score"])
            \/ /\ a["hybrid_score"] = b["hybrid_score"]
               /\ pos(a) < pos(b)
    IN  retrieved["called"] =>
          /\ Len(out) = Min(retrieved["top_k"], Len(found))
          /\ \A i \in DOMAIN out : \E j \in DOMAIN scored : out[i] = scored[j]
          /\ \A i, j \in DOMAIN out : i < j => before(out[i], out[j])
          /\ \A j \in DOMAIN scored :
               ~HasId(out, scored[j]["id"]) =>
                  \A i \in DOMAIN out : before(out[i], scored[j])

\* a retrieve that cut the searched rows to top_k and kept two rows of equal score
C3_Witness ==
    LET out == retrieved["contradictions"]
    IN  /\ retrieved["called"]
        /\ Len(retrieved["searched"]) > retrieved["top_k"]
        /\ Len(out) = 2
        /\ out[1]["hybrid_score"] = out[2]["hybrid_score"]

\* the stored rows of two retrieved dicts agree in every column but the embedding
SameButEmbedding(f, g) ==
    \A k \in RowColumns \ {"embedding"} :
        contradictions[f["id"]][k] = contradictions[g["id"]][k]

\* C4: with the default weights, of two retrieved tensions equal in every field
\* but the distance, the closer one has the strictly higher hybrid score, and
\* retrieve never returns the farther one without the closer one before it.
C4_CloserRanksHigher ==
    LET out == retrieved["contradictions"]
        scored == retrieved["scored"]
    IN  weights = DefaultWeights =>
          \A i, j \in DOMAIN scored :
             LET f == scored[i]
                 g == scored[j]
             IN  (SameButEmbedding(f, g) /\ FLess(f["distance"], g["distance"])) =>
                   /\ FLess(g["hybrid_score"], f["hybrid_score"])
                   /\ HasId(out, g["id"]) =>
                        /\ HasId(out, f["id"])
                        /\ IndexOfId(out, f["id"]) < IndexOfId(out, g["id"])

C4_Witness ==
    LET out == retrieved["contradictions"]
    IN  /\ weights = DefaultWeights
        /\ \E i, j \in DOMAIN out :
             /\ SameButEmbedding(out[i], out[j])
             /\ FLess(out[i]["distance"], out[j]["distance"])
             /\ i < j

RefusalAt(cs) == {i \in DOMAIN cs : "refusal" \in DOMAIN cs[i] /\ cs[i]["refusal"]}

\* the up to three refusal tensions of highest scar_valence, equal scar_valence
\* in list order
TopThreeAt(cs) ==
    {i \in RefusalAt(cs) :
        Cardinality({j \in RefusalAt(cs) :
            \/ cs[j]["scar_valence"] > cs[i]["scar_valence"]
            \/ cs[j]["scar_valence"] = cs[i]["scar_valence"] /\ j < i}) < 3}

\* min(1, scar_valence + 0.2 per pole the lowercased query holds
\*        + 0.1 if life_phase = 'late' and life_phase_weight > 0.7)
OwnScore(query, c) ==
    LET sum == c["scar_valence"]
               + (IF Contains(Lower(c["pole_a"]), Lower(query)) THEN 20 ELSE 0)
               + (IF Contains(Lower(c["pole_b"]), Lower(query)) THEN 20 ELSE 0)
               + (IF c["life_phase"] = "late" /\ c["life_phase_weight"] > 70 THEN 10 ELSE 0)
    IN  IF sum > 100 THEN 100 ELSE sum

\* refusalScore: 0 without a refusal tension, else the largest own score among
\* the top three
RefusalScore(query, cs) ==
    IF RefusalAt(cs) = {} THEN 0
    ELSE CHOOSE m \in 0..100 :
            /\ \E i \in TopThreeAt(cs) : OwnScore(query, cs[i]) = m
            /\ \A i \in TopThreeAt(cs) : OwnScore(query, cs[i]) <= m

C7_EmptyPackRefused ==
    (gate_result["called"] /\ gate_contradictions = <<>>) =>
        /\ gate_result["should_refuse"]
        /\ gate_result["reason"] # NoReason

UPair(c) == {Strip(Get(c, "pole_a", <<>>)), Strip(Get(c, "pole_b", <<>>))}

\* the unordered pair of the labels a, b
LabelPair(a, b) == {Strip(a), Strip(b)}

RECURSIVE SumOfFrequencies(_)
SumOfFrequencies(pole_pairs) ==
    IF pole_pairs = <<>> THEN 0
    ELSE Head(pole_pairs)["frequency"] + SumOfFrequencies(Tail(pole_pairs))

\* both poles of c are non-empty strings
BothPolesNonEmpty(c) == Get(c, "pole_a", <<>>) # <<>> /\ Get(c, "pole_b", <<>>) # <<>>

\* both poles of c are non-empty once trimmed
BothPolesNonBlank(c) ==
    Strip(Get(c, "pole_a", <<>>)) # <<>> /\ Strip(Get(c, "pole_b", <<>>)) # <<>>

\* the groups of the last aggregation are the distinct unordered pairs of the
\* counted tensions, each with the number of its tensions, and the edges built
\* from them carry the same pairs and frequencies
GroupsAreThePairsOf(counted(_)) ==
    agg_result["called"] =>
        LET pole_pairs == agg_result["pole_pairs"]
            edges == agg_result["edges"]
            idx == {k \in DOMAIN agg_args : counted(agg_args[k])}
            pair(i) == {pole_pairs[i]["key"][1], pole_pairs[i]["key"][2]}
        IN  /\ \A i, j \in DOMAIN pole_pairs : i # j => pair(i) # pair(j)
            /\ {pair(i) : i \in DOMAIN pole_pairs} = {UPair(agg_args[k]) : k \in idx}
            /\ \A i \in DOMAIN pole_pairs :
                 pole_pairs[i]["frequency"] =
                    Cardinality({k \in idx : UPair(agg_args[k]) = pair(i)})
            /\ SumOfFrequencies(pole_pairs) = Cardinality(idx)
            /\ Len(edges) = Len(pole_pairs)
            /\ \A i \in DOMAIN edges :
                 /\ {edges[i]["source"], edges[i]["target"]} = pair(i)
                 /\ edges[i]["frequency"] = pole_pairs[i]["frequency"]

\* C9, as stated: the aggregation has exactly one group (and edge) per distinct
\* unordered pair of trimmed pole labels, (a,b) and (b,a) in the same one, the
\* frequency is the number of tensions of the pair, and the frequencies sum to
\* the number of tensions whose two poles are both non-empty.
C9_OneEdgePerPairOfNonEmptyPoles == GroupsAreThePairsOf(BothPolesNonEmpty)

\* C9, amended: the same, the tensions counted being those whose two poles are
\* both non-empty after trimming; a pole of whitespace only makes the
\* aggregation skip the tension.
C9_OneEdgePerPairOfNonBlankPoles == GroupsAreThePairsOf(BothPolesNonBlank)

\* (a,b) and (b,a) in one aggregation with a tension it skips for a blank pole
C9_Witness ==
    /\ agg_result["called"]
    /\ \E i, j \in DOMAIN agg_args :
         /\ agg_args[i]["pole_a"] = agg_args[j]["pole_b"]
         /\ agg_args[i]["pole_b"] = agg_args[j]["pole_a"]
         /\ agg_args[i]["pole_a"] # agg_args[i]["pole_b"]
    /\ \E k \in DOMAIN agg_args :
         BothPolesNonEmpty(agg_args[k]) /\ ~BothPolesNonBlank(agg_args[k])
    /\ \E i \in DOMAIN agg_result["pole_pairs"] :
         agg_result["pole_pairs"][i]["frequency"] = 2

\* (toward_b - toward_a) / (toward_a + toward_b) over the tensions of cs whose
\* pair is that of the labels a, b; 0 when there is no directed one
StatedBias(cs, a, b) ==
    LET mine == {k \in DOMAIN cs : UPair(cs[k]) = LabelPair(a, b)}
        toward_a == Cardinality({k \in mine : cs[k]["collapse_direction"] = "toward_a"})
        toward_b == Cardinality({k \in mine : cs[k]["collapse_direction"] = "toward_b"})
    IN  IF toward_a + toward_b > 0
        THEN Frac(toward_b - toward_a, toward_a + toward_b)
        ELSE Frac(0, 1)

\* C10: every edge a build stores or returns, on whichever path, has the
\* direction bias (toward_b - toward_a) / (toward_a + toward_b) of the tensions
\* of its pair that the build read, 0 when none is directed.
C10_DirectionBiasOverDirected ==
    /\ \A i \in DOMAIN last_build["stored"] :
         last_build["stored"][i]["direction_bias"] =
            StatedBias(last_build["read"], last_build["stored"][i]["pole_a"],
                       last_build["stored"][i]["pole_b"])
    /\ \A i \in DOMAIN last_build["edges"] :
         last_build["edges"][i]["direction_bias"] =
            StatedBias(last_build["read"], last_build["edges"][i]["source"],
                       last_build["edges"][i]["target"])

\* the tensions of cs whose pair is that of the labels a, b and whose
\* collapse_direction is direction
DirectedCount(cs, a, b, direction) ==
    Cardinality({k \in DOMAIN cs : /\ UPair(cs[k]) = LabelPair(a, b)
                                   /\ cs[k]["collapse_direction"] = direction})

\* the fraction f is within [-1, 1]
InUnitRange(f) == f[2] > 0 /\ -f[2] <= f[1] /\ f[1] <= f[2]

\* C11: every edge in the store and every edge a build stores or returns has a
\* direction bias within [-1, 1] and a frequency (the divisor of the pipeline and
\* of the average scar) above 0, and the bias is 0 when the tensions the build
\* read hold as many toward_a as toward_b for the pair.
C11_DirectionBiasInRange ==
    /\ \A i \in DOMAIN graph_edges :
         InUnitRange(graph_edges[i]["direction_bias"]) /\ graph_edges[i]["frequency"] > 0
    /\ \A i \in DOMAIN last_build["stored"] :
         LET e == last_build["stored"][i]
         IN  /\ InUnitRange(e["direction_bias"])
             /\ e["frequency"] > 0
             /\ DirectedCount(last_build["read"], e["pole_a"], e["pole_b"], "toward_a")
                  = DirectedCount(last_build["read"], e["pole_a"], e["pole_b"], "toward_b")
                => e["direction_bias"] = Frac(0, 1)
    /\ \A i \in DOMAIN last_build["edges"] :
         LET e == last_build["edges"][i]
         IN  /\ InUnitRange(e["direction_bias"])
             /\ e["frequency"] > 0
             /\ DirectedCount(last_build["read"], e["source"], e["target"], "toward_a")
                  = DirectedCount(last_build["read"], e["source"], e["target"], "toward_b")
                => e["direction_bias"] = Frac(0, 1)

\* a build that stores an edge of one toward_a and one toward_b tension, an edge
\* of no directed tension and an edge of bias -1
C11_Witness ==
    /\ last_build["path"] # None
    /\ \E i, j, k \in DOMAIN last_build["stored"] :
         /\ DirectedCount(last_build["read"], last_build["stored"][i]["pole_a"],
                          last_build["stored"][i]["pole_b"], "toward_a") = 1
         /\ DirectedCount(last_build["read"], last_build["stored"][i]["pole_a"],
                          last_build["stored"][i]["pole_b"], "toward_b") = 1
         /\ DirectedCount(last_build["read"], last_build["stored"][j]["pole_a"],
                          last_build["stored"][j]["pole_b"], "toward_a") = 0
         /\ DirectedCount(last_build["read"], last_build["stored"][j]["pole_a"],
                          last_build["stored"][j]["pole_b"], "toward_b") = 0
         /\ last_build["stored"][k]["direction_bias"] = Frac(-1, 1)

\* the sum of a field over the pole pairs at the positions idx
RECURSIVE SumField(_, _, _)
SumField(pole_pairs, idx, field) ==
    IF idx = {} THEN 0
    ELSE LET i == CHOOSE x \in idx : TRUE
         IN  pole_pairs[i][field] + SumField(pole_pairs, idx \ {i}, field)

\* C12: the nodes of an aggregation are the distinct pole labels of its edges,
\* one each; a node's frequency and scar are the sums of the frequency and
\* scar_sum of the edges incident to its pole, its connections their number, and
\* its refusal flag says whether one of them holds a refusal tension; also for
\* an edge whose two poles are the same label.
C12_NodesSumIncidentEdges ==
    agg_result["called"] =>
        LET pole_pairs == agg_result["pole_pairs"]
            nodes == agg_result["nodes"]
            labels == UNION {{pole_pairs[i]["key"][1], pole_pairs[i]["key"][2]} :
                                i \in DOMAIN pole_pairs}
            incident(l) == {i \in DOMAIN pole_pairs :
                               l \in {pole_pairs[i]["key"][1], pole_pairs[i]["key"][2]}}
        IN  /\ {nodes[n]["id"] : n \in DOMAIN nodes} = labels
            /\ Len(nodes) = Cardinality(labels)
            /\ \A n \in DOMAIN nodes :
                 LET mine == incident(nodes[n]["id"])
                 IN  /\ nodes[n]["frequency"] = SumField(pole_pairs, mine, "frequency")
                     /\ nodes[n]["scar"] = SumField(pole_pairs, mine, "scar_sum")
                     /\ nodes[n]["connections"] = Cardinality(mine)
                     /\ nodes[n]["refusal"] <=>
                            \E i \in mine : pole_pairs[i]["refusal_count"] > 0

\* what the claim compares of a pole pair: its labels, frequency, scar sum and
\* max, refusal flag, direction bias, phases and masks
EdgeFacts(data) ==
    [pair |-> data["key"], frequency |-> data["frequency"], scar_sum |-> data["scar_sum"],
     scar_max |-> data["scar_max"], refusal |-> data["refusal_count"] > 0,
     direction_bias |-> DirectionBias(data), phases |-> Range(data["phases"]),
     masks |-> data["masks"]]

\* the tension list cs in the order p of its positions
Permuted(cs, p) == [i \in DOMAIN p |-> cs[p[i]]]

\* aggregating any permutation of the last aggregated list gives the node set
\* and the edge set that the aggregation gave
SameGraphInAnyOrder ==
    agg_result["called"] =>
        \A p \in Orders(DOMAIN agg_args) :
            LET pole_pairs == aggregate_contradictions(Permuted(agg_args, p))
            IN  /\ {EdgeFacts(pole_pairs[i]) : i \in DOMAIN pole_pairs}
                     = {EdgeFacts(agg_result["pole_pairs"][i]) :
                            i \in DOMAIN agg_result["pole_pairs"]}
                /\ Range(build_edges(pole_pairs)) = Range(agg_result["edges"])
                /\ Range(build_nodes(pole_pairs)) = Range(agg_result["nodes"])

C14_StoredEdgesAreCurrentAggregation ==
    last_build["path"] # None =>
        LET counted == {k \in DOMAIN contradictions : BothPolesNonBlank(contradictions[k])}
            pair(i) == LabelPair(graph_edges[i]["pole_a"], graph_edges[i]["pole_b"])
        IN  /\ \A i, j \in DOMAIN graph_edges : i # j => pair(i) # pair(j)
            /\ {pair(i) : i \in DOMAIN graph_edges} = {UPair(contradictions[k]) : k \in counted}
            /\ \A i \in DOMAIN graph_edges :
                 graph_edges[i]["frequency"] =
                    Cardinality({k \in counted : UPair(contradictions[k]) = pair(i)})

WordStarts(t) ==
    {p \in DOMAIN t : ~IsSpace(t[p]) /\ (p = 1 \/ IsSpace(t[p - 1]))}

WordEnd(t, p) ==
    CHOOSE q \in p..Len(t) :
        /\ \A r \in p..q : ~IsSpace(t[r])
        /\ (q = Len(t) \/ IsSpace(t[q + 1]))

WordsOf(t) ==
    LET starts == WordStarts(t)
        nth(k) == CHOOSE p \in starts : Cardinality({r \in starts : r < p}) = k - 1
    IN  [k \in 1..Cardinality(starts) |-> SubSeq(t, nth(k), WordEnd(t, nth(k)))]

\* strings joined by single spaces
RECURSIVE SpaceJoined(_)
SpaceJoined(ws) ==
    IF ws = <<>> THEN <<>>
    ELSE IF Len(ws) = 1 THEN ws[1]
    ELSE ws[1] \o <<32>> \o SpaceJoined(Tail(ws))

\* a text with every run of whitespace replaced by one space
RECURSIVE RunsAsOneSpace(_)
RunsAsOneSpace(t) ==
    IF t = <<>> THEN <<>>
    ELSE IF ~IsSpace(t[1]) THEN <<t[1]>> \o RunsAsOneSpace(Tail(t))
    ELSE IF Len(t) > 1 /\ IsSpace(t[2]) THEN RunsAsOneSpace(Tail(t))
    ELSE <<32>> \o RunsAsOneSpace(Tail(t))

\* leading and trailing spaces removed
RECURSIVE Trimmed(_)
Trimmed(t) ==
    IF t = <<>> THEN <<>>
    ELSE IF t[1] = 32 THEN Trimmed(Tail(t))
    ELSE IF t[Len(t)] = 32 THEN Trimmed(SubSeq(t, 1, Len(t) - 1))
    ELSE t

\* ceil(n / d) for d > 0
CeilDiv(n, d) == (n + d - 1) \div d

\* the sizes satisfy 0 <= overlap < chunk_size
SizesValid == 0 <= overlap /\ overlap < chunk_size

\* the number of chunks stated for the text: ceil(n / (chunk_size - overlap))
StatedChunkCount ==
    IF SizesValid THEN CeilDiv(Len(WordsOf(text)), chunk_size - overlap) ELSE 0

\* C16: with chunk_size w > overlap o >= 0, chunk_text returns exactly the chunks
\* k = 0, 1, ... with k*(w-o) < n, in order, chunk k being the words at positions
\* k*(w-o) up to but excluding min(n, k*(w-o)+w) joined by single spaces; a text
\* without words yields no chunk, every chunk has between 1 and w words, and every
\* word of the text is in some chunk
C16_ChunksAreTheWindows ==
    (chunk_pc = "returned" /\ SizesValid) =>
        LET W == WordsOf(text)
            n == Len(W)
            step == chunk_size - overlap
            K == {k \in 0..n : k * step < n}
            last(k) == Min(n, k * step + chunk_size)
        IN  /\ Len(chunks) = Cardinality(K)
            /\ \A k \in K : chunks[k + 1] = SpaceJoined(SubSeq(W, k * step + 1, last(k)))
            /\ (\A p \in DOMAIN text : IsSpace(text[p])) => chunks = <<>>
            /\ \A c \in DOMAIN chunks :
                 /\ Len(WordsOf(chunks[c])) >= 1
                 /\ Len(WordsOf(chunks[c])) <= chunk_size
            /\ \A p \in 1..n : \E k \in K : k * step < p /\ p <= last(k)

\* an overlapping chunking into a full window and a shorter last one, the text
\* holding a run of whitespace
C16_Witness ==
    /\ chunk_pc = "returned"
    /\ chunk_size = 2
    /\ overlap = 1
    /\ Len(chunks) = 2
    /\ Len(WordsOf(chunks[1])) = 2
    /\ Len(WordsOf(chunks[2])) = 1
    /\ \E p \in DOMAIN text : p > 1 /\ IsSpace(text[p]) /\ IsSpace(text[p - 1])

\* C17: with overlap = 0 and chunk_size >= 1, the chunks joined by single spaces are
\* the text with every run of whitespace replaced by one space and the leading and
\* trailing whitespace removed
C17_ChunksRejoinToNormalisedText ==
    (chunk_pc = "returned" /\ overlap = 0 /\ chunk_size >= 1) =>
        SpaceJoined(chunks) = Trimmed(RunsAsOneSpace(text))

\* a text with leading whitespace and a whitespace run cut into several chunks
C17_Witness ==
    /\ chunk_pc = "returned"
    /\ overlap = 0
    /\ Len(chunks) >= 2
    /\ IsSpace(text[1])
    /\ \E p \in DOMAIN text : p > 1 /\ IsSpace(text[p]) /\ IsSpace(text[p - 1])
       /\ \E q \in DOMAIN text : q > p /\ ~IsSpace(text[q])

\* C18: a Chunker whose overlap is not below its chunk_size produces no chunk and
\* its chunk_text does not return a result
C18_BadSizesProduceNothing ==
    (overlap >= chunk_size) => (chunks = <<>> /\ chunk_pc # "returned")

\* C19: with 0 <= overlap < chunk_size a chunk_text call returns, after exactly
\* ceil(n / (chunk_size - overlap)) chunks for a text of n words, and the window
\* start grows in every pass of the loop
C19_ChunkTextTerminates ==
    /\ (chunk_pc = "while" /\ SizesValid) ~>
           (chunk_pc = "returned" /\ Len(chunks) = StatedChunkCount)
    /\ [][(SizesValid /\ chunk_pc = "while" /\ chunks' # chunks) => chunk_i' > chunk_i]_vars
    /\ [](SizesValid => Len(chunks) <= StatedChunkCount)

\* a call that returned after three passes of the loop over overlapping windows
C19_Witness ==
    /\ chunk_pc = "returned"
    /\ SizesValid
    /\ overlap > 0
    /\ Len(chunks) = 3
    /\ chunk_i = 3

(***************************************************************************)
(* Properties of the ResponseComposer                                      *)
(***************************************************************************)
\* the create calls made so far all raised
AllCallsRaised ==
    /\ llm_calls > 0
    /\ \A k \in 1..llm_calls : llm_outcomes[k].kind = "raises"

\* C20: when the LLM client raises, compose_with_voice_fallback goes on to the next
\* voice and, every voice having failed, returns the fixed fallback response; the
\* response it returns never starts with "Error: "
C20_FailureIsNotTheAnswer ==
    compose_pc = "returned" =>
        /\ Prefix(compose_result.response, Len(ErrorPrefix)) # ErrorPrefix
        /\ AllCallsRaised => compose_result = FallbackResponse

\* C20 for error messages that leave "Error: " and the message within 50 characters
C20_ShortFailureIsNotTheAnswer ==
    (/\ compose_pc = "returned"
     /\ \A k \in 1..llm_calls :
          llm_outcomes[k].kind = "raises" =>
              Len(ErrorPrefix) + Len(llm_outcomes[k].text) <= SubstantiveLen) =>
        /\ Prefix(compose_result.response, Len(ErrorPrefix)) # ErrorPrefix
        /\ AllCallsRaised => compose_result = FallbackResponse

(***************************************************************************)
(* Further properties of the CLEAR gate                                    *)
(***************************************************************************)
\* the reason names the tension c: its poles, scar_valence and life_phase
ReasonNames(r, c) ==
    /\ r # NoReason
    /\ r["poles"] = <<c["pole_a"], c["pole_b"]>>
    /\ r["scar_valence"] = c["scar_valence"]
    /\ r["life_phase"] = c["life_phase"]

ValidPoles(c) ==
    LET a == Strip(Get(c, "pole_a", <<>>))
        b == Strip(Get(c, "pole_b", <<>>))
    IN  /\ Lower(a) # Lower(b)
        /\ Len(a) >= 3
        /\ Len(b) >= 3

\* C22: every tension held in the store has different poles of at least 3
\* characters, and every edge of an aggregation counts exactly the tensions of its
\* pair that have, the others being discarded
C22_OnlyValidPairsStoredOrCounted ==
    /\ \A i \in DOMAIN contradictions : ValidPoles(contradictions[i])
    /\ agg_result["called"] =>
         \A k \in DOMAIN agg_result["edges"] :
            LET e == agg_result["edges"][k]
                ofPair == {i \in DOMAIN agg_args : UPair(agg_args[i]) = {e["source"], e["target"]}}
            IN  /\ \A i \in ofPair : ValidPoles(agg_args[i])
                /\ e["frequency"] = Cardinality(ofPair)

\* a tension written in the other order: the poles swapped, and toward_a and
\* toward_b swapped with them
OtherDirection(d) ==
    IF d = "toward_a" THEN "toward_b" ELSE IF d = "toward_b" THEN "toward_a" ELSE d

OtherOrder(c) ==
    [key \in DOMAIN c |->
        IF key = "pole_a" THEN Get(c, "pole_b", <<>>)
        ELSE IF key = "pole_b" THEN Get(c, "pole_a", <<>>)
        ELSE IF key = "collapse_direction" THEN OtherDirection(c[key])
        ELSE c[key]]

\* the tensions of the list on the pair {s, t} that collapsed toward the pole p
CollapsedToward(cs, s, t, p) ==
    {i \in DOMAIN cs :
        /\ UPair(cs[i]) = {s, t}
        /\ \/ /\ Get(cs[i], "collapse_direction", "") = "toward_a"
              /\ Strip(Get(cs[i], "pole_a", <<>>)) = p
           \/ /\ Get(cs[i], "collapse_direction", "") = "toward_b"
              /\ Strip(Get(cs[i], "pole_b", <<>>)) = p}

\* C23: writing a tension of the list in the other order does not change the
\* aggregated edges, and an edge's direction_bias is positive only if more of its
\* tensions collapsed toward its target pole than toward its source pole
C23_BiasOrientedByEdge ==
    agg_result["called"] =>
        /\ \A i \in DOMAIN agg_args :
              ("pole_a" \in DOMAIN agg_args[i] /\ "pole_b" \in DOMAIN agg_args[i]) =>
                 Range(build_edges(aggregate_contradictions(
                           [agg_args EXCEPT ![i] = OtherOrder(agg_args[i])])))
                    = Range(agg_result["edges"])
        /\ \A k \in DOMAIN agg_result["edges"] :
              LET e == agg_result["edges"][k]
              IN  FLess(Frac(0, 1), e["direction_bias"]) =>
                     Cardinality(CollapsedToward(agg_args, e["source"], e["target"], e["target"]))
                        > Cardinality(CollapsedToward(agg_args, e["source"], e["target"], e["source"]))

(***************************************************************************)
(* Properties of get_subgraph                                              *)
(***************************************************************************)
\* the poles of the stored edges, and p
PolesWith(rows, p) ==
    {p} \cup {rows[i]["pole_a"] : i \in DOMAIN rows} \cup {rows[i]["pole_b"] : i \in DOMAIN rows}

\* a stored edge joins the poles x and y
Adjacent(rows, x, y) ==
    \E i \in DOMAIN rows :
        \/ rows[i]["pole_a"] = x /\ rows[i]["pole_b"] = y
        \/ rows[i]["pole_a"] = y /\ rows[i]["pole_b"] = x

\* q is reachable from p in at most d hops: a walk of at most d edges leads from
\* p to q
WithinHops(rows, p, q, d) ==
    \E n \in 0..d :
        \E walk \in [1..(n + 1) -> PolesWith(rows, p)] :
            /\ walk[1] = p
            /\ walk[n + 1] = q
            /\ \A k \in 1..n : Adjacent(rows, walk[k], walk[k + 1])

\* the number of times the row r is held in the list rows
TimesIn(rows, r) == Cardinality({i \in DOMAIN rows : rows[i] = r})

\* the subgraph returned is the one stated
SubgraphAsStated ==
    subgraph["called"] =>
        LET p == subgraph["central"]
            near == {q \in PolesWith(graph_edges, p) :
                        WithinHops(graph_edges, p, q, subgraph["depth"])}
        IN  /\ subgraph["nodes"] = {[id |-> q, label |-> q] : q \in near}
            /\ subgraph["depth"] = 0 => near = {p}
            /\ \A r \in Range(graph_edges) \cup Range(subgraph["edges"]) :
                 TimesIn(subgraph["edges"], r)
                    = IF r["pole_a"] \in near /\ r["pole_b"] \in near
                      THEN TimesIn(graph_edges, r) ELSE 0

\* C30: get_subgraph returns as nodes exactly the poles reachable from the central
\* pole in at most depth hops over the stored edges (only the central pole at depth
\* 0, and the central pole even without an edge), as edges exactly the stored edges
\* with both endpoints among the nodes, and writes nothing to the store
C30_SubgraphIsTheNeighbourhood ==
    /\ []SubgraphAsStated
    /\ [][store_vars' = store_vars]_vars

\* a subgraph of depth 1 around a pole of a chain: the pole two hops away and its
\* edge are left out
C30_Witness ==
    /\ subgraph["called"]
    /\ subgraph["depth"] = 1
    /\ Cardinality(subgraph["nodes"]) = 2
    /\ Len(subgraph["edges"]) = 1
    /\ Len(graph_edges) = 3
    /\ \E q \in PolesWith(graph_edges, subgraph["central"]) :
          /\ WithinHops(graph_edges, subgraph["central"], q, 2)
          /\ ~WithinHops(graph_edges, subgraph["central"], q, 1)

(***************************************************************************)
(* Properties of the build lifecycle and of chat                           *)
(***************************************************************************)
\* task t ends in this step
Ends(t) == t \in DOMAIN tasks /\ tasks[t]["pc"] \notin EndedAt /\ tasks'[t]["pc"] \in EndedAt

\* the batch of task t has the status s after the step
BatchStatusAfter(t, s) ==
    /\ tasks[t]["batch_id"] \in DOMAIN batches'
    /\ batches'[tasks[t]["batch_id"]]["status"] = s

\* C28: when run_build_pipeline ends, either the kernel status is 'ready' and the
\* batch status 'done', or the kernel status is 'error' and the batch status
\* 'error'; and POST /build on a missing kernel returns 404 without creating a batch
\* or changing any status
C28_BuildEndsReadyOrError ==
    [][/\ \A t \in DOMAIN tasks :
            Ends(t) =>
               \/ kernel_status' = "ready" /\ BatchStatusAfter(t, "done")
               \/ kernel_status' = "error" /\ BatchStatusAfter(t, "error")
       /\ build_response'["status"] = 404 =>
            /\ batches' = batches
            /\ kernel_status' = kernel_status
            /\ tasks' = tasks]_vars

\* C29: a chat is answered only while no build pipeline of the kernel is in
\* progress: a chat issued between a build's start and its end is rejected
C29_NoAnswerDuringBuild ==
    [][(ChatAny /\ chat_response'["status"] = 200) =>
          \A t \in DOMAIN tasks : tasks[t]["pc"] \in EndedAt]_vars


(***************************************************************************)
(* Properties of the query-time path                                       *)
(***************************************************************************)
\* what the store keeps of the kernel: tensions, graph edges, chunks (deep
\* memories), sources, the kernel's status and the batch records
Persistent == <<contradictions, graph_edges, deep_memories, sources, kernel_status, batches>>

\* C21: a retrieve, retrieve_by_poles, get_mask_context, evaluate or POST /chat
\* call, returning or failing, leaves the stored tensions, chunks, graph edges,
\* kernel status and batch records as they were
C21_QueriesWriteNothing == [][QueryStep => Persistent' = Persistent]_vars

\* every query operation has been called on a built kernel, the chat answered
C21_Witness ==
    /\ chat_response["status"] = 200
    /\ retrieved["called"] /\ retrieved["contradictions"] # <<>>
    /\ gate_result["called"]
    /\ query_result["op"] # None /\ query_result["rows"] # <<>>
    /\ graph_edges # <<>>
    /\ batches # <<>>

(***************************************************************************)
(* Properties of IngestPipeline.run                                        *)
(***************************************************************************)
\* the statuses run writes on its way, in their order, after 'queued'
StatusRank(status) ==
    CASE status = "queued" -> 0
      [] status = "parsing" -> 1
      [] status = "embedding" -> 2
      [] status = "storing" -> 3
      [] status = "done" -> 4
      [] OTHER -> 5

\* the progress a batch row shows: none written yet on a queued row
ProgressOf(row) ==
    IF row["status"] \in {"parsing", "embedding", "storing", "done"}
    THEN row["step"]["progress"]
    ELSE 0

\* every chunk of every source the run works on is a deep memory
AllChunksSaved(run, memories) ==
    \A n \in DOMAIN run["sources"] :
        \A i \in 1..run["sources"][n]["chunks"] :
            \E m \in DOMAIN memories : memories[m]["text"] = <<run["sources"][n]["id"], i>>

\* C26: the statuses run writes follow parsing, embedding, storing, done without a
\* step back or a step skipped; 'done' is written only when every chunk of every
\* source is saved, with memories_stored = chunks_created; progress never decreases
\* and lies in 0..100; a row that is 'done' is not written again
C26_StatusesInOrder ==
    [][\A b \in DOMAIN batches :
          LET old == batches[b]
              new == batches'[b]
          IN  /\ IF old["status"] = "done" THEN new = old ELSE TRUE
              /\ IF new["status"] \in {"parsing", "embedding", "storing", "done"}
                 THEN /\ StatusRank(old["status"]) <= StatusRank(new["status"])
                      /\ StatusRank(new["status"]) <= StatusRank(old["status"]) + 1
                      /\ ProgressOf(new) \in 0..100
                      /\ ProgressOf(old) <= ProgressOf(new)
                 ELSE TRUE
              /\ IF new["status"] = "done"
                 THEN /\ new["step"]["memories_stored"] = new["step"]["chunks_created"]
                      /\ AllChunksSaved(ingest', deep_memories')
                 ELSE TRUE]_vars

\* a run over two sources of three chunks together is done
C26_Witness ==
    /\ batches[1]["status"] = "done"
    /\ ingest["pc"] = "returned"
    /\ Len(ingest["sources"]) = 2
    /\ Len(deep_memories) >= 3

\* a step in which run fails: a collaborator raises, or no source is found
Fails ==
    \/ IngestFailure
    \/ IngestGetSources /\ SelectSources(sources, ingest["sources"]) = <<>>

\* the batch row b is 'error' with the message
ErrorWritten(rows, b, message) ==
    IF rows[b]["status"] = "error" THEN rows[b]["step"]["error"] = message ELSE FALSE

====
